---------------------------- MODULE Spec2Model ----------------------------
(***************************************************************************)
(* A model of mcp-sync's configuration transformation and encrypted-sync   *)
(* engine: the npx command wrapper (services/windows_service.go), the two  *)
(* encryption generations (SecurityManager in services/security.go,        *)
(* SecureCrypto and its keyring) as StorageService uses them               *)
(* (services/storage.go), and AppService's push and conflict detection     *)
(* against the Gist store (services/app_service.go, GistSyncService).      *)
(*                                                                         *)
(* Strings and byte slices are sequences of byte values (0..255): "ENC:"   *)
(* is <<69, 78, 67, 58>>.                                                  *)
(***************************************************************************)
EXTENDS Integers, Sequences, FiniteSets, TLC

VARIABLES
    \* ---- WindowsService: one wrap / unwrap round trip
    goos,          \* runtime.GOOS
    wphase,        \* "input" | "wrapped" | "unwrapped"
    wcommand,      \* the command given to WrapNpxCommand
    wargs,         \* the args given to WrapNpxCommand
    wrappedCmd,    \* WrapNpxCommand's result
    wrappedArgs,
    outCmd,        \* UnwrapNpxCommand's result
    outArgs,
    \* ---- the system keyring, SecureCrypto and StorageService
    cryptoAvail,   \* StorageService.crypto # nil (NewSecureCrypto succeeded)
    keyringUp,     \* the OS secret store answers (environment)
    keyringKey,    \* the key stored as mcp-sync / master_key, <<>> when none
    securityMgr,   \* StorageService.securityMgr's encryptionKey, <<>> when nil
    oldEnabled,    \* StorageService.oldEnabled
    file,          \* one file of the data directory, with what was written (ghost)
    res,           \* the last call and what it returned
    lifecycle,     \* ghost: "never" | "enabled" | "disabled", by the last
                   \* Enable() / Disable() that returned nil
    migratedPw,    \* ghost: the password of the last successful migration
    \* ---- AppService, GistSyncService and the remote Gist
    clock,         \* time.Now(), in ticks
    agentsCfg,     \* the installed agents' configurations, marshalled
    configFile,    \* sync_config.json: [exists, data]
    versions,      \* the versions directory: files [sec, data], by name
    gistSync,      \* AppService.gistSync, a GistSyncService or nil (set = FALSE)
    remote,        \* the Gist: [exists, hasFile, content] of mcp-config.json
    sres,          \* the last AppService call and what it returned, until the
                   \* environment moves
    pushedHash,    \* ghost: the remote version's hash after the last successful
                   \* PushAllAgentsToGist, <<>> once the Gist was written otherwise
    \* ---- ConfigConverter and its ConfigLoader
    cphase,        \* "idle" | "loaded" | "done"
    configLoader,  \* ConfigConverter.configLoader: [Agents, Transforms]
    srcAgent,      \* the arguments of ConvertAgentConfig
    tgtAgent,
    srcConfig,
    conversion,    \* the ConversionResult and error it returned
    \* ---- AppService's push and pull over the tools, with their records
    wall,          \* time.Now(), in ticks
    toolFiles,     \* the tools' config files: "absent" | "broken" | the value
    syncDoc,       \* sync_config.json: [exists, doc]
    service,       \* AppService.gistSync
    gistDoc,       \* the Gist: [exists, sealed, content]
    versionDir,    \* the versions directory: second |-> ConfigVersion
    logDir,        \* the logs directory: second |-> SyncLog
    ret,           \* the last handler and how it ended
    bind,          \* the last InitializeGistSync call: what it was given, the
                   \* requests and writes it made in their order, the id it
                   \* returned
    resolving,     \* the arguments of the last ResolveConflict call
    \* ---- one tool's config file and the calls that write it
    tool,          \* the agent whose config file it is
    cfgFile,       \* the file: [form, doc], doc the top-level keys' values
    cfgCall,       \* the last call: [op, err, agentID]
    pushed,        \* the tool's entry in the Gist's aggregate: [set, entry]
    writers,       \* the WriteAgentMCPConfig calls in flight: writer |->
                   \* [pc, config, server, nth]
    guard          \* the caller lets one call run at a time

wrapVars == <<goos, wphase, wcommand, wargs, wrappedCmd, wrappedArgs, outCmd, outArgs>>

cryptoVars == <<cryptoAvail, keyringUp, keyringKey, securityMgr, oldEnabled,
                file, res, lifecycle, migratedPw>>

syncVars == <<clock, agentsCfg, configFile, versions, gistSync, remote, sres,
              pushedHash>>

convVars == <<cphase, configLoader, srcAgent, tgtAgent, srcConfig, conversion>>

deskVars == <<wall, toolFiles, syncDoc, service, gistDoc, versionDir, logDir, ret,
              bind, resolving>>

cfgVars == <<tool, cfgFile, cfgCall, pushed, writers, guard>>

vars == <<wrapVars, cryptoVars, syncVars, convVars, deskVars, cfgVars>>

-----------------------------------------------------------------------------
(* Strings, and locals *)

\* v := ..., then what follows it: a value computed once and used by name
With(v, Rest(_)) == Rest(v)

HasPrefix(s, p) == Len(s) >= Len(p) /\ SubSeq(s, 1, Len(p)) = p

TrimPrefix(s, p) == IF HasPrefix(s, p) THEN SubSeq(s, Len(p) + 1, Len(s)) ELSE s

\* strings.Join(elems, sep)
RECURSIVE Join(_, _)
Join(elems, sep) ==
    IF Len(elems) = 0 THEN <<>>
    ELSE IF Len(elems) = 1 THEN elems[1]
    ELSE elems[1] \o sep \o Join(Tail(elems), sep)

StrNpx      == <<110, 112, 120>>          \* "npx"
StrNpxSp    == <<110, 112, 120, 32>>      \* "npx "
StrCmd      == <<99, 109, 100>>           \* "cmd"
StrSlashC   == <<47, 99>>                 \* "/c"
StrSpace    == <<32>>                     \* " "

-----------------------------------------------------------------------------
(* encoding/base64, StdEncoding *)

Base64Alphabet ==
    <<65, 66, 67, 68, 69, 70, 71, 72, 73, 74, 75, 76, 77, 78, 79, 80, 81, 82,
      83, 84, 85, 86, 87, 88, 89, 90,
      97, 98, 99, 100, 101, 102, 103, 104, 105, 106, 107, 108, 109, 110, 111,
      112, 113, 114, 115, 116, 117, 118, 119, 120, 121, 122,
      48, 49, 50, 51, 52, 53, 54, 55, 56, 57, 43, 47>>

Base64Pad == <<61>>    \* "="

B64Char(v) == Base64Alphabet[v + 1]

\* The 6-bit value of a character, -1 for a character outside the alphabet.
B64Val(c) ==
    IF c >= 65 /\ c <= 90 THEN c - 65
    ELSE IF c >= 97 /\ c <= 122 THEN c - 97 + 26
    ELSE IF c >= 48 /\ c <= 57 THEN c - 48 + 52
    ELSE IF c = 43 THEN 62
    ELSE IF c = 47 THEN 63
    ELSE 0 - 1

RECURSIVE Base64Encode(_)
Base64Encode(b) ==
    IF Len(b) = 0 THEN <<>>
    ELSE IF Len(b) = 1 THEN
        <<B64Char(b[1] \div 4), B64Char((b[1] % 4) * 16)>> \o Base64Pad \o Base64Pad
    ELSE IF Len(b) = 2 THEN
        <<B64Char(b[1] \div 4),
          B64Char((b[1] % 4) * 16 + b[2] \div 16),
          B64Char((b[2] % 16) * 4)>> \o Base64Pad
    ELSE
        <<B64Char(b[1] \div 4),
          B64Char((b[1] % 4) * 16 + b[2] \div 16),
          B64Char((b[2] % 16) * 4 + b[3] \div 64),
          B64Char(b[3] % 64)>> \o Base64Encode(SubSeq(b, 4, Len(b)))

\* Base64Decode(s) = [ok, bytes]: ok is FALSE for a length that is no multiple of
\* four, a character outside the alphabet, or padding anywhere but at the end.
RECURSIVE Base64Decode(_)
Base64Decode(s) ==
    IF Len(s) = 0 THEN [ok |-> TRUE, bytes |-> <<>>]
    ELSE IF Len(s) < 4 THEN [ok |-> FALSE, bytes |-> <<>>]
    ELSE
        LET v1 == B64Val(s[1])
            v2 == B64Val(s[2])
            v3 == B64Val(s[3])
            v4 == B64Val(s[4])
            last == Len(s) = 4
        IN  IF v1 < 0 \/ v2 < 0 THEN [ok |-> FALSE, bytes |-> <<>>]
            ELSE IF last /\ s[3] = 61 /\ s[4] = 61
                 THEN [ok |-> TRUE, bytes |-> <<v1 * 4 + v2 \div 16>>]
            ELSE IF v3 < 0 THEN [ok |-> FALSE, bytes |-> <<>>]
            ELSE IF last /\ s[4] = 61
                 THEN [ok |-> TRUE,
                       bytes |-> <<v1 * 4 + v2 \div 16, (v2 % 16) * 16 + v3 \div 4>>]
            ELSE IF v4 < 0 THEN [ok |-> FALSE, bytes |-> <<>>]
            ELSE LET rest == Base64Decode(SubSeq(s, 5, Len(s)))
                 IN  [ok |-> rest.ok,
                      bytes |-> <<v1 * 4 + v2 \div 16,
                                  (v2 % 16) * 16 + v3 \div 4,
                                  (v3 % 4) * 64 + v4>> \o rest.bytes]

-----------------------------------------------------------------------------
(* crypto/aes + crypto/cipher GCM, as an authenticated cipher: the sealed   *)
(* text is the plaintext shifted by a key- and nonce-dependent stream, with *)
(* a keyed tag over it; Open fails unless the tag verifies under its key.   *)

KeySize   == 32
NonceSize == 12
TagSize   == 16

RECURSIVE SumBytes(_)
SumBytes(b) == IF Len(b) = 0 THEN 0 ELSE (b[1] + SumBytes(Tail(b))) % 256

KeyStream(key, nonce, i) == key[((i - 1) % KeySize) + 1] + nonce[((i - 1) % NonceSize) + 1]

GcmTag(key, nonce, ct) ==
    [j \in 1..TagSize |->
        (key[j] + 2 * key[j + TagSize] + nonce[((j - 1) % NonceSize) + 1]
         + SumBytes(ct) + Len(ct) + j) % 256]

\* gcm.Seal(nonce, nonce, plain, nil): nonce || ciphertext || tag
GcmSeal(key, nonce, plain) ==
    LET ct == [i \in 1..Len(plain) |-> (plain[i] + KeyStream(key, nonce, i)) % 256]
    IN  nonce \o ct \o GcmTag(key, nonce, ct)

\* gcm.Open(nil, nonce, sealed, nil) = [ok, plain]
GcmOpen(key, nonce, sealed) ==
    IF Len(sealed) < TagSize THEN [ok |-> FALSE, plain |-> <<>>]
    ELSE
        LET ct  == SubSeq(sealed, 1, Len(sealed) - TagSize)
            tag == SubSeq(sealed, Len(sealed) - TagSize + 1, Len(sealed))
        IN  IF tag # GcmTag(key, nonce, ct) THEN [ok |-> FALSE, plain |-> <<>>]
            ELSE [ok |-> TRUE,
                  plain |-> [i \in 1..Len(ct) |->
                                (ct[i] + 512 - KeyStream(key, nonce, i)) % 256]]

\* aes.NewCipher accepts keys of 16, 24 or 32 bytes only.
ValidAesKey(key) == Len(key) \in {16, 24, KeySize}

Failed == [ok |-> FALSE, out |-> <<>>]

\* encryptData(key, plaintext), with the nonce rand.Reader gave
encryptData(key, nonce, plaintext) ==
    IF ~ValidAesKey(key) THEN Failed
    ELSE [ok |-> TRUE, out |-> Base64Encode(GcmSeal(key, nonce, plaintext))]

\* decryptData opening the decoded bytes without splitting the nonce off them
decryptDataWholeSealed(key, ciphertext) ==
    LET dec == Base64Decode(ciphertext)
    IN  IF ~dec.ok THEN Failed
        ELSE IF ~ValidAesKey(key) THEN Failed
        ELSE IF Len(dec.bytes) < NonceSize THEN Failed
        ELSE LET opened == GcmOpen(key, SubSeq(dec.bytes, 1, NonceSize), dec.bytes)
             IN  IF ~opened.ok THEN Failed
                 ELSE [ok |-> TRUE, out |-> opened.plain]

\* decryptData(key, ciphertext)
decryptData(key, ciphertext) ==
    With(Base64Decode(ciphertext), LAMBDA dec :
        IF ~dec.ok THEN Failed
        ELSE IF ~ValidAesKey(key) THEN Failed
        ELSE IF Len(dec.bytes) < NonceSize THEN Failed
        ELSE With(GcmOpen(key, SubSeq(dec.bytes, 1, NonceSize),
                          SubSeq(dec.bytes, NonceSize + 1, Len(dec.bytes))),
                  LAMBDA opened :
                      IF ~opened.ok THEN Failed
                      ELSE [ok |-> TRUE, out |-> opened.plain]))

\* padKey(key): the password repeated to 32 bytes, or cut to them.  (An empty
\* password never reaches it: both callers refuse one first.)
RECURSIVE padKey(_)
padKey(key) ==
    IF Len(key) > KeySize THEN SubSeq(key, 1, KeySize)
    ELSE IF Len(key) < KeySize THEN padKey(key \o key)
    ELSE key

\* SecurityManager.Encrypt / Decrypt, sm being the manager's encryptionKey
SecurityManagerEncrypt(sm, nonce, plaintext) ==
    IF ~ValidAesKey(sm) THEN Failed
    ELSE [ok |-> TRUE, out |-> Base64Encode(GcmSeal(sm, nonce, plaintext))]

SecurityManagerDecrypt(sm, ciphertext) ==
    With(Base64Decode(ciphertext), LAMBDA dec :
        IF ~dec.ok THEN Failed
        ELSE IF ~ValidAesKey(sm) THEN Failed
        ELSE IF Len(dec.bytes) < NonceSize THEN Failed
        ELSE With(GcmOpen(sm, SubSeq(dec.bytes, 1, NonceSize),
                          SubSeq(dec.bytes, NonceSize + 1, Len(dec.bytes))),
                  LAMBDA opened :
                      IF ~opened.ok THEN Failed
                      ELSE [ok |-> TRUE, out |-> opened.plain]))

\* NewSecurityManager(key).encryptionKey
NewSecurityManager(password) == padKey(password)

-----------------------------------------------------------------------------
(* The system keyring (WindowsKeyring / MacOSKeyring / LinuxKeyring) holding *)
(* one entry, mcp-sync / master_key.  kr is the stored key, <<>> when none.  *)

Ok(out) == [ok |-> TRUE, out |-> out]

\* SystemKeyring.GetKey: an error when the store is unreachable or holds no key
KeyringGetKey(kr) == IF keyringUp /\ kr # <<>> THEN Ok(kr) ELSE Failed

\* SystemKeyring.SetKey = [ok, kr]
KeyringSetKey(kr, keyData) ==
    IF keyringUp THEN [ok |-> TRUE, kr |-> keyData] ELSE [ok |-> FALSE, kr |-> kr]

\* SystemKeyring.DeleteKey = [ok, kr]: deleting a missing key is an error in the
\* go-keyring stores and none in the DPAPI file store.
KeyringDeleteKey(kr) ==
    IF ~keyringUp THEN [ok |-> FALSE, kr |-> kr]
    ELSE IF kr = <<>> THEN [ok |-> goos = "windows", kr |-> kr]
    ELSE [ok |-> TRUE, kr |-> <<>>]

-----------------------------------------------------------------------------
(* SecureCrypto *)

StrENC == <<69, 78, 67, 58>>    \* "ENC:"

getKey(kr) == KeyringGetKey(kr)

IsEnabled(kr) == getKey(kr).ok /\ Len(getKey(kr).out) > 0

\* Enable() = [ok, kr], newKey being what generateRandomKey would give
Enable(kr, newKey) ==
    IF getKey(kr).ok /\ Len(getKey(kr).out) > 0 THEN [ok |-> TRUE, kr |-> kr]
    ELSE KeyringSetKey(kr, newKey)

\* Disable() reporting success and leaving the stored key where it is
DisableKeepsKey(kr) == [ok |-> keyringUp, kr |-> kr]

\* Disable() = [ok, kr]
Disable(kr) == KeyringDeleteKey(kr)

Encrypt(kr, nonce, plaintext) ==
    IF ~getKey(kr).ok THEN Failed
    ELSE encryptData(getKey(kr).out, nonce, plaintext)

Decrypt(kr, ciphertext) ==
    IF ~getKey(kr).ok THEN Failed
    ELSE decryptData(getKey(kr).out, ciphertext)

isEncrypted(data) == HasPrefix(data, StrENC)

\* EncryptIfNeeded without the look at the tag
EncryptIfNeededUnchecked(kr, nonce, data) ==
    IF ~IsEnabled(kr) THEN Ok(data)
    ELSE LET encrypted == Encrypt(kr, nonce, data)
         IN  IF ~encrypted.ok THEN Failed
             ELSE Ok(StrENC \o encrypted.out)

EncryptIfNeeded(kr, nonce, data) ==
    IF ~IsEnabled(kr) THEN Ok(data)
    ELSE IF isEncrypted(data) THEN Ok(data)
    ELSE LET encrypted == Encrypt(kr, nonce, data)
         IN  IF ~encrypted.ok THEN Failed
             ELSE Ok(StrENC \o encrypted.out)

DecryptIfNeeded(kr, data) ==
    IF ~isEncrypted(data) THEN Ok(data)
    ELSE IF ~IsEnabled(kr) THEN Failed
    ELSE With(Decrypt(kr, TrimPrefix(data, StrENC)), LAMBDA decrypted :
             IF ~decrypted.ok THEN Failed
             ELSE Ok(decrypted.out))

\* MigrateFromPassword(password) = [ok, kr]: the key derived from the old
\* password goes into a temporary SecureCrypto that is dropped on return.
MigrateFromPassword(kr, newKey, password) ==
    IF IsEnabled(kr) THEN [ok |-> TRUE, kr |-> kr]
    ELSE KeyringSetKey(kr, newKey)

-----------------------------------------------------------------------------
(* StorageService: the two encryption generations.  sm is securityMgr's key  *)
(* (<<>> for nil), old is oldEnabled.                                        *)

IsEncryptionEnabled(kr, old) == (cryptoAvail /\ IsEnabled(kr)) \/ old

\* EnableEncryption(password) = the service's keys afterwards: kr, sm, old, with
\* migrated (MigrateFromPassword returned nil) and enabled (Enable() returned nil)
EnableEncryptionOf(kr, sm, old, password, newKey) ==
    IF password # <<>> /\ cryptoAvail
    THEN LET m == MigrateFromPassword(kr, newKey, password)
         IN  IF ~m.ok
             THEN [kr |-> m.kr, sm |-> NewSecurityManager(password), old |-> TRUE,
                   migrated |-> FALSE, enabled |-> FALSE]
             ELSE LET e == Enable(m.kr, newKey)
                  IN  [kr |-> e.kr, sm |-> sm, old |-> old,
                       migrated |-> TRUE, enabled |-> e.ok]
    ELSE IF cryptoAvail
    THEN LET e == Enable(kr, newKey)
         IN  [kr |-> e.kr, sm |-> sm, old |-> old, migrated |-> FALSE, enabled |-> e.ok]
    ELSE [kr |-> kr, sm |-> sm, old |-> old, migrated |-> FALSE, enabled |-> FALSE]

encryptIfNeededOld(sm, nonce, data) ==
    IF isEncrypted(data) THEN Ok(data)
    ELSE LET encrypted == SecurityManagerEncrypt(sm, nonce, data)
         IN  IF ~encrypted.ok THEN Failed
             ELSE Ok(StrENC \o encrypted.out)

encryptIfNeeded(kr, sm, old, nonce, data) ==
    IF cryptoAvail /\ IsEnabled(kr) THEN EncryptIfNeeded(kr, nonce, data)
    ELSE IF sm # <<>> /\ old THEN encryptIfNeededOld(sm, nonce, data)
    ELSE Ok(data)

decryptIfNeededOld(sm, data) ==
    IF ~isEncrypted(data) THEN Ok(data)
    ELSE With(SecurityManagerDecrypt(sm, TrimPrefix(data, StrENC)), LAMBDA decrypted :
             IF ~decrypted.ok THEN Failed
             ELSE Ok(decrypted.out))

\* decryptIfNeeded giving up when the keyring key does not open the blob
decryptIfNeededNoFallback(kr, sm, old, data) ==
    IF cryptoAvail /\ IsEnabled(kr) THEN DecryptIfNeeded(kr, data)
    ELSE IF sm # <<>> /\ old THEN decryptIfNeededOld(sm, data)
    ELSE IF ~isEncrypted(data) THEN Ok(data)
    ELSE Failed

decryptIfNeeded(kr, sm, old, data) ==
    With(DecryptIfNeeded(kr, data), LAMBDA decrypted :
        IF cryptoAvail /\ IsEnabled(kr) /\ decrypted.ok THEN decrypted
        ELSE IF sm # <<>> /\ old THEN decryptIfNeededOld(sm, data)
        ELSE IF ~isEncrypted(data) THEN Ok(data)
        ELSE Failed)

\* The previous release's StorageService.encryptIfNeeded: everything under the
\* password-derived key.  Files it wrote are what a migration finds on disk.
LegacyEncryptIfNeeded(password, nonce, data) ==
    IF password = <<>> THEN Ok(data)
    ELSE IF isEncrypted(data) THEN Ok(data)
    ELSE LET encrypted == SecurityManagerEncrypt(NewSecurityManager(password), nonce, data)
         IN  IF ~encrypted.ok THEN Failed
             ELSE Ok(StrENC \o encrypted.out)

-----------------------------------------------------------------------------
(* time and encoding/json, for the documents the sync engine stores.  The    *)
(* clock counts ticks; RFC3339 text keeps whole seconds only, a marshalled   *)
(* time.Time keeps the tick.                                                 *)

TicksPerSecond == 2

Unix(t) == t \div TicksPerSecond

\* time.Parse(time.RFC3339, t.Format(time.RFC3339))
TruncateToSecond(t) == Unix(t) * TicksPerSecond

\* json.Unmarshal into a map or struct accepts an object only
JsonValid(b) == Len(b) >= 2 /\ b[1] = 123 /\ b[Len(b)] = 125

\* a string field: its length, then its bytes
Field(str) == <<48 + Len(str)>> \o str

ReadField(b, pos) ==
    IF pos > Len(b) \/ b[pos] < 48 \/ pos + (b[pos] - 48) > Len(b)
    THEN [ok |-> FALSE, val |-> <<>>, next |-> pos]
    ELSE [ok |-> TRUE, val |-> SubSeq(b, pos + 1, pos + (b[pos] - 48)),
          next |-> pos + (b[pos] - 48) + 1]

\* LoadSyncConfig's default for a missing file, as far as sync reads it
DefaultConfig ==
    [GitHubToken |-> <<>>, GistID |-> <<>>, EnableEncryption |-> FALSE,
     EncryptionPassword |-> <<>>, GistEncryptionPassword |-> <<>>]

\* json.MarshalIndent(config) / json.Unmarshal(data, &config) of models.SyncConfig
MarshalConfig(c) ==
    <<123>> \o Field(c.GitHubToken) \o Field(c.GistID)
            \o <<IF c.EnableEncryption THEN 49 ELSE 48>>
            \o Field(c.EncryptionPassword) \o Field(c.GistEncryptionPassword) \o <<125>>

UnmarshalConfig(b) ==
    IF ~JsonValid(b) THEN [ok |-> FALSE, config |-> DefaultConfig]
    ELSE LET f1 == ReadField(b, 2)
             f2 == ReadField(b, f1.next)
             en == f2.next
             f3 == ReadField(b, en + 1)
             f4 == ReadField(b, f3.next)
         IN  IF ~(f1.ok /\ f2.ok /\ en < Len(b) /\ b[en] \in {48, 49}
                   /\ f3.ok /\ f4.ok /\ f4.next = Len(b))
             THEN [ok |-> FALSE, config |-> DefaultConfig]
             ELSE [ok |-> TRUE,
                   config |-> [GitHubToken |-> f1.val, GistID |-> f2.val,
                               EnableEncryption |-> b[en] = 49,
                               EncryptionPassword |-> f3.val,
                               GistEncryptionPassword |-> f4.val]]

NoVersion == [Timestamp |-> 0, Content |-> <<>>, Source |-> "", Hash |-> <<>>]

\* json.MarshalIndent(version) / json.Unmarshal(data, &version) of
\* models.ConfigVersion: the timestamp to the tick, the source, the content
MarshalVersion(v) ==
    <<123, 48 + v.Timestamp, IF v.Source = "local" THEN 76 ELSE 71>> \o v.Content \o <<125>>

UnmarshalVersion(b) ==
    IF ~JsonValid(b) \/ Len(b) < 4 THEN [ok |-> FALSE, version |-> NoVersion]
    ELSE IF b[2] < 48 \/ b[3] \notin {76, 71} THEN [ok |-> FALSE, version |-> NoVersion]
    ELSE [ok |-> TRUE,
          version |-> [Timestamp |-> b[2] - 48,
                       Content |-> SubSeq(b, 4, Len(b) - 1),
                       Source |-> IF b[3] = 76 THEN "local" ELSE "gist",
                       Hash |-> <<>>]]

KeyAgents  == 65     \* "agents"
KeyServers == 83     \* "servers"

\* The document the Gist holds: {"agents" | "servers": body, "timestamp":
\* RFC3339, "encrypted": true}; CreateGist's has no "encrypted".
MarshalPayload(kind, body, now, encrypted) ==
    <<123, kind, 48 + Unix(now), IF encrypted THEN 101 ELSE 112>> \o body \o <<125>>

\* the "timestamp" of a decoded document, when it has one that parses
PayloadTimestamp(b) ==
    IF JsonValid(b) /\ Len(b) >= 5 /\ b[2] \in {KeyAgents, KeyServers} /\ b[3] >= 48
    THEN [ok |-> TRUE, t |-> (b[3] - 48) * TicksPerSecond]
    ELSE [ok |-> FALSE, t |-> 0]

\* ConfigManager.ExportConfigAsJSON(servers): {"servers": servers}
ExportConfigAsJSON(servers) == <<123, KeyServers>> \o servers \o <<125>>

\* computeHash(content): hex of SHA-256, taken as collision-free
computeHash(content) == <<104>> \o content

-----------------------------------------------------------------------------
(* StorageService's files.  st is the service with its data directory:       *)
(* [kr, sm, old, lc, mp, cf, vs] for the keyring key, securityMgr,           *)
(* oldEnabled, the two ghosts, sync_config.json and the versions directory.  *)

ApplyEnableEncryption(st, password, newKey) ==
    With(EnableEncryptionOf(st.kr, st.sm, st.old, password, newKey), LAMBDA e :
        [st EXCEPT !.kr = e.kr, !.sm = e.sm, !.old = e.old,
                   !.lc = IF e.enabled THEN "enabled" ELSE st.lc,
                   !.mp = IF e.migrated THEN password ELSE st.mp])

\* ioutil.WriteFile of what encryptIfNeeded gave, its error dropped
WriteUnchecked(r) == [exists |-> TRUE, data |-> IF r.ok THEN r.out ELSE <<>>]

\* SaveSyncConfig(config) = [ok, st]
SaveSyncConfig(st, config, nonce) ==
    With(encryptIfNeeded(st.kr, st.sm, st.old, nonce, MarshalConfig(config)), LAMBDA r :
        IF ~r.ok THEN [ok |-> FALSE, st |-> st]
        ELSE [ok |-> TRUE, st |-> [st EXCEPT !.cf = [exists |-> TRUE, data |-> r.out]]])

\* LoadSyncConfig writing the file back: json.MarshalIndent, encryptIfNeeded,
\* ioutil.WriteFile, their errors dropped
RewriteSyncConfig(st, config, nonce) ==
    [st EXCEPT !.cf = WriteUnchecked(encryptIfNeeded(st.kr, st.sm, st.old, nonce,
                                                     MarshalConfig(config)))]

\* LoadSyncConfig() = [ok, config, st]: it may enable encryption and rewrite
\* the file on the way
LoadSyncConfig(st, newKey, nonce) ==
    IF ~st.cf.exists THEN [ok |-> TRUE, config |-> DefaultConfig, st |-> st]
    ELSE
      With(decryptIfNeeded(st.kr, st.sm, st.old, st.cf.data), LAMBDA dec :
      With(UnmarshalConfig(dec.out), LAMBDA um :
        IF ~dec.ok \/ ~um.ok THEN [ok |-> FALSE, config |-> DefaultConfig, st |-> st]
        ELSE
          With(um.config, LAMBDA c0 :
          With(IF c0.EnableEncryption /\ ~IsEncryptionEnabled(st.kr, st.old)
               THEN RewriteSyncConfig(ApplyEnableEncryption(st, <<>>, newKey), c0, nonce)
               ELSE st, LAMBDA st1 :
            IF c0.EncryptionPassword # <<>> /\ c0.GistEncryptionPassword = <<>>
            THEN With([c0 EXCEPT !.GistEncryptionPassword = c0.EncryptionPassword],
                      LAMBDA c1 : [ok |-> TRUE, config |-> c1,
                                   st |-> RewriteSyncConfig(st1, c1, nonce)])
            ELSE [ok |-> TRUE, config |-> c0, st |-> st1]))))

\* SaveConfigVersion(version) = st: the file is version_<unix second>.json
SaveConfigVersion(st, version, now, nonce) ==
    With(encryptIfNeeded(st.kr, st.sm, st.old, nonce, MarshalVersion(version)), LAMBDA r :
    With([sec |-> Unix(now), data |-> r.out], LAMBDA f :
        IF ~r.ok THEN st
        ELSE IF \E i \in 1..Len(st.vs) : st.vs[i].sec = f.sec
        THEN [st EXCEPT !.vs = [i \in 1..Len(st.vs) |->
                                   IF st.vs[i].sec = f.sec THEN f ELSE st.vs[i]]]
        ELSE [st EXCEPT !.vs = Append(st.vs, f)]))

\* ListConfigVersions(limit): from the last file name down, leaving out what
\* does not decrypt or parse
RECURSIVE ListFrom(_, _, _)
ListFrom(st, i, limit) ==
    IF i = 0 \/ limit = 0 THEN <<>>
    ELSE With(decryptIfNeeded(st.kr, st.sm, st.old, st.vs[i].data), LAMBDA dec :
         With(UnmarshalVersion(dec.out), LAMBDA um :
             IF ~dec.ok \/ ~um.ok THEN ListFrom(st, i - 1, limit)
             ELSE <<um.version>> \o ListFrom(st, i - 1, limit - 1)))

ListConfigVersions(st, limit) == ListFrom(st, Len(st.vs), limit)

\* getLatestLocalVersion() = [exists, version]
getLatestLocalVersion(st) ==
    With(ListConfigVersions(st, 1), LAMBDA vs :
        IF Len(vs) = 0 THEN [exists |-> FALSE, version |-> NoVersion]
        ELSE [exists |-> TRUE,
              version |-> [vs[1] EXCEPT !.Hash = computeHash(vs[1].Content)]])

-----------------------------------------------------------------------------
(* GistSyncService.  gs is the service, rm the Gist behind its id; every     *)
(* operation gives the HTTP requests it sent.                                *)

NewGistSyncService(token, gistID) ==
    [set |-> TRUE, githubToken |-> token, gistID |-> gistID,
     encryptionEnabled |-> FALSE, securityMgr |-> <<>>]

\* SetEncryption(enabled, password) = [ok, gs]
SetEncryption(gs, enabled, password) ==
    IF ~enabled THEN [ok |-> TRUE, gs |-> [gs EXCEPT !.encryptionEnabled = FALSE]]
    ELSE IF password = <<>>
         THEN [ok |-> FALSE, gs |-> [gs EXCEPT !.encryptionEnabled = TRUE]]
         ELSE [ok |-> TRUE,
               gs |-> [gs EXCEPT !.encryptionEnabled = TRUE,
                                 !.securityMgr = NewSecurityManager(password)]]

NoRequest == <<>>

\* no Gist behind the id: every request for it is answered 404
NoRemote == [exists |-> FALSE, hasFile |-> FALSE, content |-> <<>>]

GistFailed(rm, http) == [ok |-> FALSE, rm |-> rm, http |-> http]

\* PATCH /gists/<id> with a new mcp-config.json: 404 for a Gist that is gone
HttpPatch(rm, content) ==
    IF ~rm.exists THEN [status |-> 404, rm |-> rm]
    ELSE [status |-> 200, rm |-> [exists |-> TRUE, hasFile |-> TRUE, content |-> content]]

\* The upload both pushes share, after their guards
UploadEncrypted(gs, rm, content, nonce) ==
    With(SecurityManagerEncrypt(gs.securityMgr, nonce, content), LAMBDA encrypted :
        IF ~encrypted.ok THEN GistFailed(rm, NoRequest)
        ELSE With(HttpPatch(rm, encrypted.out), LAMBDA resp :
                 [ok |-> resp.status = 200, rm |-> resp.rm, http |-> <<"PATCH">>]))

\* PushAgentConfigsToGist with no look at encryptionEnabled / securityMgr
PushAgentConfigsUnguarded(gs, rm, agentConfigs, now, nonce) ==
    IF gs.gistID = <<>> \/ gs.githubToken = <<>> THEN GistFailed(rm, NoRequest)
    ELSE UploadEncrypted(gs, rm, MarshalPayload(KeyAgents, agentConfigs, now, TRUE), nonce)

\* PushAgentConfigsToGist(agentConfigs) = [ok, rm, http]
PushAgentConfigsToGist(gs, rm, agentConfigs, now, nonce) ==
    IF gs.gistID = <<>> \/ gs.githubToken = <<>> THEN GistFailed(rm, NoRequest)
    ELSE IF ~gs.encryptionEnabled \/ gs.securityMgr = <<>> THEN GistFailed(rm, NoRequest)
    ELSE UploadEncrypted(gs, rm, MarshalPayload(KeyAgents, agentConfigs, now, TRUE), nonce)

\* GistSyncService.PushToGist(servers) = [ok, rm, http]
GistPushToGist(gs, rm, servers, now, nonce) ==
    IF gs.gistID = <<>> \/ gs.githubToken = <<>> THEN GistFailed(rm, NoRequest)
    ELSE IF ~gs.encryptionEnabled \/ gs.securityMgr = <<>> THEN GistFailed(rm, NoRequest)
    ELSE UploadEncrypted(gs, rm, MarshalPayload(KeyServers, servers, now, TRUE), nonce)

StrEmptyList == <<91, 93>>    \* "[]"

\* CreateGist([], description): POST /gists, the new Gist holding the
\* unencrypted {"servers": [], "timestamp": now}
CreateGist(gs, now) ==
    IF gs.githubToken = <<>> THEN GistFailed(NoRemote, NoRequest)
    ELSE [ok |-> TRUE,
          rm |-> [exists |-> TRUE, hasFile |-> TRUE,
                  content |-> MarshalPayload(KeyServers, StrEmptyList, now, FALSE)],
          http |-> <<"POST">>]

NoRemoteVersion(http) == [ok |-> FALSE, version |-> NoVersion, http |-> http]

\* GetLatestVersion() = [ok, version, http]
GetLatestVersion(gs, rm, now) ==
    IF gs.gistID = <<>> \/ gs.githubToken = <<>> THEN NoRemoteVersion(NoRequest)
    ELSE IF ~rm.exists THEN NoRemoteVersion(<<"GET">>)
    ELSE IF ~rm.hasFile THEN NoRemoteVersion(<<"GET">>)
    ELSE
      LET tryDecrypt == ~JsonValid(rm.content) /\ gs.encryptionEnabled
                                                /\ gs.securityMgr # <<>>
      IN  With(SecurityManagerDecrypt(gs.securityMgr, rm.content), LAMBDA decrypted :
            IF tryDecrypt /\ ~decrypted.ok THEN NoRemoteVersion(<<"GET">>)
            ELSE
              With(IF tryDecrypt THEN decrypted.out ELSE rm.content, LAMBDA contentStr :
              With(PayloadTimestamp(contentStr), LAMBDA ts :
                [ok |-> TRUE,
                 version |-> [Timestamp |-> IF ts.ok THEN ts.t ELSE now,
                              Content |-> contentStr,
                              Source |-> "gist",
                              Hash |-> computeHash(contentStr)],
                 http |-> <<"GET">>])))

-----------------------------------------------------------------------------
(* AppService.  Each operation gives an outcome [st, gs, rm, err, conflict,  *)
(* ctype, http]: the storage, the sync service and the Gist afterwards, and  *)
(* what was returned.  conflict is "nil" when no SyncConflict is returned,   *)
(* else "none" / "conflict" for its HasConflict.                             *)

Outcome(st, gs, rm, err, http) ==
    [st |-> st, gs |-> gs, rm |-> rm, err |-> err, conflict |-> "nil", ctype |-> "",
     http |-> http]

Verdict(st, gs, rm, conflict, ctype, http) ==
    [st |-> st, gs |-> gs, rm |-> rm, err |-> FALSE, conflict |-> conflict,
     ctype |-> ctype, http |-> http]

NotConfigured(config) == config.GitHubToken = <<>> \/ config.GistID = <<>>

\* "Initialize gist sync if not already done"
EnsureGistSync(gs, config) ==
    IF gs.set THEN gs
    ELSE LET fresh == NewGistSyncService(config.GitHubToken, config.GistID)
         IN  IF config.EnableEncryption /\ config.EncryptionPassword # <<>>
             THEN SetEncryption(fresh, config.EnableEncryption,
                                config.EncryptionPassword).gs
             ELSE fresh

StrGistID == <<103>>     \* the id GitHub gives the Gist

\* InitializeGistSync(token, gistID)
InitializeGistSyncOf(st, gs, rm, token, gistID, now, newKey, nonce) ==
    LET created == CreateGist(NewGistSyncService(token, <<>>), now)
    IN  IF gistID = <<>> /\ ~created.ok THEN Outcome(st, gs, rm, TRUE, created.http)
        ELSE
          LET id   == IF gistID = <<>> THEN StrGistID ELSE gistID
              rm1  == IF gistID = <<>> THEN created.rm ELSE rm
              http == IF gistID = <<>> THEN created.http ELSE NoRequest
          IN  With(LoadSyncConfig(st, newKey, nonce), LAMBDA l :
              With(SaveSyncConfig(l.st, [l.config EXCEPT !.GitHubToken = token,
                                                         !.GistID = id], nonce),
                   LAMBDA saved :
                       Outcome(saved.st, NewGistSyncService(token, id), rm1,
                               ~saved.ok, http)))

\* SetupGistEncryption(enabled, password)
SetupGistEncryptionOf(st, gs, rm, enabled, password, newKey, nonce) ==
    IF ~gs.set THEN Outcome(st, gs, rm, TRUE, NoRequest)
    ELSE
      With(LoadSyncConfig(st, newKey, nonce), LAMBDA l :
      With(SaveSyncConfig(l.st, [l.config EXCEPT !.EnableEncryption = enabled,
                                                 !.EncryptionPassword = password],
                          nonce), LAMBDA saved :
        IF ~saved.ok THEN Outcome(saved.st, gs, rm, TRUE, NoRequest)
        ELSE With(SetEncryption(gs, enabled, password), LAMBDA set :
               Outcome(IF enabled THEN ApplyEnableEncryption(saved.st, password, newKey)
                       ELSE saved.st,
                       set.gs, rm, ~set.ok, NoRequest))))

\* The tail both pushes share: the version is saved, the upload tried, and
\* after a good upload the sync config is loaded and saved again.
SaveAndUpload(st, gs, content, upload, now, newKey, nonce) ==
    LET version == [Timestamp |-> now, Content |-> content, Source |-> "local",
                    Hash |-> <<>>]
    IN  With(SaveConfigVersion(st, version, now, nonce), LAMBDA st1 :
          IF ~upload.ok THEN Outcome(st1, gs, upload.rm, TRUE, upload.http)
          ELSE With(LoadSyncConfig(st1, newKey, nonce), LAMBDA l2 :
                 Outcome(SaveSyncConfig(l2.st, l2.config, nonce).st, gs, upload.rm,
                         FALSE, upload.http)))

\* PushAllAgentsToGist(), agents being what the detected agents' files hold;
\* nonce is rand.Reader's for the storage, gcmNonce its for the upload
PushAllAgentsToGistOf(st, gs, rm, agents, now, newKey, nonce, gcmNonce) ==
    With(LoadSyncConfig(st, newKey, nonce), LAMBDA l :
        IF ~l.ok THEN Outcome(l.st, gs, rm, TRUE, NoRequest)
        ELSE IF NotConfigured(l.config) THEN Outcome(l.st, gs, rm, TRUE, NoRequest)
        ELSE With(EnsureGistSync(gs, l.config), LAMBDA gs1 :
               SaveAndUpload(l.st, gs1, agents,
                             PushAgentConfigsToGist(gs1, rm, agents, now, gcmNonce),
                             now, newKey, nonce)))

\* AppService.PushToGist(servers)
PushToGistOf(st, gs, rm, servers, now, newKey, nonce, gcmNonce) ==
    With(LoadSyncConfig(st, newKey, nonce), LAMBDA l :
        IF ~l.ok THEN Outcome(l.st, gs, rm, TRUE, NoRequest)
        ELSE IF NotConfigured(l.config) THEN Outcome(l.st, gs, rm, TRUE, NoRequest)
        ELSE With(EnsureGistSync(gs, l.config), LAMBDA gs1 :
               SaveAndUpload(l.st, gs1, ExportConfigAsJSON(servers),
                             GistPushToGist(gs1, rm, servers, now, gcmNonce),
                             now, newKey, nonce)))

\* DetectPushConflict ignoring the hashes
DetectPushConflictAnyRemote(st, gs, rm, now, newKey, nonce) ==
    With(LoadSyncConfig(st, newKey, nonce), LAMBDA l :
      IF ~l.ok THEN Outcome(l.st, gs, rm, TRUE, NoRequest)
      ELSE IF NotConfigured(l.config) THEN Outcome(l.st, gs, rm, TRUE, NoRequest)
      ELSE
        With(EnsureGistSync(gs, l.config), LAMBDA gs1 :
        With(getLatestLocalVersion(l.st), LAMBDA localVersion :
        With(GetLatestVersion(gs1, rm, now), LAMBDA remoteVersion :
          IF ~localVersion.exists THEN Verdict(l.st, gs1, rm, "none", "", NoRequest)
          ELSE IF ~remoteVersion.ok
               THEN Verdict(l.st, gs1, rm, "none", "", remoteVersion.http)
          ELSE Verdict(l.st, gs1, rm, "conflict", "push_conflict",
                       remoteVersion.http)))))

\* DetectPushConflict()
DetectPushConflictOf(st, gs, rm, now, newKey, nonce) ==
    With(LoadSyncConfig(st, newKey, nonce), LAMBDA l :
      IF ~l.ok THEN Outcome(l.st, gs, rm, TRUE, NoRequest)
      ELSE IF NotConfigured(l.config) THEN Outcome(l.st, gs, rm, TRUE, NoRequest)
      ELSE
        With(EnsureGistSync(gs, l.config), LAMBDA gs1 :
        With(getLatestLocalVersion(l.st), LAMBDA localVersion :
        With(GetLatestVersion(gs1, rm, now), LAMBDA remoteVersion :
          IF ~localVersion.exists THEN Verdict(l.st, gs1, rm, "none", "", NoRequest)
          ELSE IF ~remoteVersion.ok
               THEN Verdict(l.st, gs1, rm, "none", "", remoteVersion.http)
          ELSE IF localVersion.version.Hash # remoteVersion.version.Hash
               THEN Verdict(l.st, gs1, rm, "conflict", "push_conflict",
                            remoteVersion.http)
          ELSE Verdict(l.st, gs1, rm, "none", "", remoteVersion.http)))))

\* DetectPullConflict ignoring the timestamps
DetectPullConflictAnyTime(st, gs, rm, now, newKey, nonce) ==
    With(LoadSyncConfig(st, newKey, nonce), LAMBDA l :
      IF ~l.ok THEN Outcome(l.st, gs, rm, TRUE, NoRequest)
      ELSE IF NotConfigured(l.config) THEN Outcome(l.st, gs, rm, TRUE, NoRequest)
      ELSE
        With(EnsureGistSync(gs, l.config), LAMBDA gs1 :
        With(getLatestLocalVersion(l.st), LAMBDA localVersion :
        With(GetLatestVersion(gs1, rm, now), LAMBDA remoteVersion :
          IF ~remoteVersion.ok THEN Outcome(l.st, gs1, rm, TRUE, remoteVersion.http)
          ELSE IF /\ localVersion.exists
                  /\ localVersion.version.Hash # remoteVersion.version.Hash
               THEN Verdict(l.st, gs1, rm, "conflict", "pull_conflict",
                            remoteVersion.http)
          ELSE Verdict(l.st, gs1, rm, "none", "", remoteVersion.http)))))

\* DetectPullConflict(): an error from GetLatestVersion is returned as one
DetectPullConflictOf(st, gs, rm, now, newKey, nonce) ==
    With(LoadSyncConfig(st, newKey, nonce), LAMBDA l :
      IF ~l.ok THEN Outcome(l.st, gs, rm, TRUE, NoRequest)
      ELSE IF NotConfigured(l.config) THEN Outcome(l.st, gs, rm, TRUE, NoRequest)
      ELSE
        With(EnsureGistSync(gs, l.config), LAMBDA gs1 :
        With(getLatestLocalVersion(l.st), LAMBDA localVersion :
        With(GetLatestVersion(gs1, rm, now), LAMBDA remoteVersion :
          IF ~remoteVersion.ok THEN Outcome(l.st, gs1, rm, TRUE, remoteVersion.http)
          ELSE IF /\ localVersion.exists
                  /\ localVersion.version.Timestamp > remoteVersion.version.Timestamp
                  /\ localVersion.version.Hash # remoteVersion.version.Hash
               THEN Verdict(l.st, gs1, rm, "conflict", "pull_conflict",
                            remoteVersion.http)
          ELSE Verdict(l.st, gs1, rm, "none", "", remoteVersion.http)))))

-----------------------------------------------------------------------------
(* WindowsService *)

IsWindows == goos = "windows"

\* WrapNpxCommand(command, args) -> <<command, args>>
WrapNpxCommand(command, args) ==
    IF ~IsWindows THEN <<command, args>>
    ELSE IF HasPrefix(command, StrNpxSp) \/ command = StrNpx
         THEN IF HasPrefix(command, StrNpxSp)
              THEN <<StrCmd, <<StrSlashC, command>>>>
              ELSE <<StrCmd, <<StrSlashC, StrNpx>> \o args>>
         ELSE <<command, args>>

\* UnwrapNpxCommand(command, args) -> <<command, args>>
UnwrapNpxCommand(command, args) ==
    IF command # StrCmd \/ Len(args) < 2 THEN <<command, args>>
    ELSE IF args[1] # StrSlashC THEN <<command, args>>
    ELSE IF HasPrefix(args[2], StrNpxSp)
         THEN LET additionalArgs == SubSeq(args, 3, Len(args))
              IN  IF Len(additionalArgs) > 0
                  THEN <<args[2] \o StrSpace \o Join(additionalArgs, StrSpace), <<>>>>
                  ELSE <<args[2], <<>>>>
    ELSE IF args[2] = StrNpx
         THEN <<StrNpx, SubSeq(args, 3, Len(args))>>
    ELSE <<command, args>>

\* The commands and argument lists the round trip is tried on.
MaxArgs == 2

WrapCommands ==
    { StrNpx,                              \* "npx"        (split form)
      <<110, 112, 120, 32, 64, 112>>,      \* "npx @p"     (combined form)
      <<110, 112, 120, 32, 45, 121>>,      \* "npx -y"     (combined form)
      <<110, 112, 120, 120>>,              \* "npxx"
      <<112, 121>>,                        \* "py"
      StrCmd }                             \* "cmd"

WrapArgValues ==
    { <<47, 112>>,                         \* "/p"
      <<45, 121>>,                         \* "-y"
      StrSlashC,                           \* "/c"
      StrNpx }                             \* "npx"

SeqsUpTo(S, n) == UNION { [1..k -> S] : k \in 0..n }

-----------------------------------------------------------------------------
(* ConfigConverter (services/converter.go) over ConfigLoader's registry.  A  *)
(* config is a map from server names to entries; an entry that is a          *)
(* map[string]interface{} is [isMap |-> TRUE, fields |-> its fields], any    *)
(* other value is [isMap |-> FALSE, raw |-> the value].  A TransformRule's   *)
(* RemoveFields and KeepFields are used for membership only, so they are     *)
(* sets.  cl is the ConfigLoader: [Agents, Transforms].                      *)

NoFields == [f \in {} |-> 0]

MapEntry(fields) == [isMap |-> TRUE, fields |-> fields, raw |-> 0]

RawEntry(v) == [isMap |-> FALSE, fields |-> NoFields, raw |-> v]

TransformRule(add, remove, keep) ==
    [AddFields |-> add, RemoveFields |-> remove, KeepFields |-> keep]

NilConfig == [nil |-> TRUE, servers |-> [s \in {} |-> 0]]

ConfigOf(servers) == [nil |-> FALSE, servers |-> servers]

NilAgent == [nil |-> TRUE, Format |-> ""]

GetAgentDefinition(cl, agentID) ==
    IF agentID \in DOMAIN cl.Agents
    THEN [nil |-> FALSE, Format |-> cl.Agents[agentID]]
    ELSE NilAgent

TransformKey(fromFormat, toFormat) == fromFormat \o "_to_" \o toFormat

NilRule == [nil |-> TRUE, rule |-> TransformRule(NoFields, {}, {})]

GetTransformRule(cl, fromFormat, toFormat) ==
    IF TransformKey(fromFormat, toFormat) \in DOMAIN cl.Transforms
    THEN [nil |-> FALSE, rule |-> cl.Transforms[TransformKey(fromFormat, toFormat)]]
    ELSE NilRule

\* the fields of serverMap that the rule's keep step copies
KeptFields(serverMap, transform) ==
    IF transform.KeepFields # {}
    THEN DOMAIN serverMap \cap transform.KeepFields
    ELSE DOMAIN serverMap

\* one server's map under a rule: copy, delete, add
transformServer(serverMap, transform) ==
    [f \in (KeptFields(serverMap, transform) \ transform.RemoveFields)
               \cup DOMAIN transform.AddFields |->
        IF f \in DOMAIN transform.AddFields
        THEN transform.AddFields[f]
        ELSE serverMap[f]]

applyTransform(config, transform) ==
    [serverName \in DOMAIN config |->
        IF ~config[serverName].isMap
        THEN config[serverName]
        ELSE MapEntry(transformServer(config[serverName].fields, transform))]

\* the source fields ApplyTransformRule copies: the kept ones, or with no
\* keep_fields all but the removed ones
CopiedFields(configMap, rule) ==
    IF rule.KeepFields # {}
    THEN DOMAIN configMap \cap rule.KeepFields
    ELSE DOMAIN configMap \ rule.RemoveFields

\* ConfigLoader.ApplyTransformRule(data, rule), data a map of servers and
\* rule not nil: the added fields first, the copied ones written over them;
\* an entry that is not a map is left out
ApplyTransformRule(servers, rule) ==
    [name \in { n \in DOMAIN servers : servers[n].isMap } |->
        MapEntry([f \in DOMAIN rule.AddFields \cup CopiedFields(servers[name].fields, rule) |->
                     IF f \in CopiedFields(servers[name].fields, rule)
                     THEN servers[name].fields[f]
                     ELSE rule.AddFields[f]])]

\* ApplyTransformRule as the config loader with the npx handling has it, for
\* a rule that asks for no wrapping or unwrapping: a field is written once,
\* the added ones first, and every source field but command and args that
\* was not written is copied at the end
ApplyTransformRuleOnce(servers, rule) ==
    [name \in { n \in DOMAIN servers : servers[n].isMap } |->
        MapEntry([f \in DOMAIN rule.AddFields
                        \cup CopiedFields(servers[name].fields, rule)
                        \cup (DOMAIN servers[name].fields \ {"command", "args"}) |->
                     IF f \in DOMAIN rule.AddFields
                     THEN rule.AddFields[f]
                     ELSE servers[name].fields[f]])]

ConversionResult(success, converted, err) ==
    [Success |-> success, ConvertedConfig |-> converted, err |-> err]

\* [nil, servers, err]: the standard config, or nil with an error
convertToStandard(cl, sourceAgentID, sourceConfig) ==
    With(GetAgentDefinition(cl, sourceAgentID), LAMBDA sourceAgent :
        IF sourceAgent.nil THEN [cfg |-> NilConfig, err |-> TRUE]
        ELSE IF sourceAgent.Format = "standard"
        THEN [cfg |-> ConfigOf(sourceConfig), err |-> FALSE]
        ELSE With(GetTransformRule(cl, sourceAgent.Format, "standard"),
                  LAMBDA transform :
            IF transform.nil THEN [cfg |-> NilConfig, err |-> TRUE]
            ELSE [cfg |-> ConfigOf(applyTransform(sourceConfig, transform.rule)),
                  err |-> FALSE]))

convertFromStandard(cl, targetAgentID, standardConfig) ==
    With(GetAgentDefinition(cl, targetAgentID), LAMBDA targetAgent :
        IF targetAgent.nil THEN ConversionResult(FALSE, NilConfig, TRUE)
        ELSE IF targetAgent.Format = "standard"
        THEN ConversionResult(TRUE, ConfigOf(standardConfig), FALSE)
        ELSE With(GetTransformRule(cl, "standard", targetAgent.Format),
                  LAMBDA transform :
            IF transform.nil THEN ConversionResult(FALSE, NilConfig, TRUE)
            ELSE ConversionResult(
                     TRUE, ConfigOf(applyTransform(standardConfig, transform.rule)),
                     FALSE)))

\* a conversion without a direct rule that skips the leg into the standard
\* format
ConvertFromStandardOnly(cl, sourceAgentID, targetAgentID, sourceConfig, sourceFormat, targetFormat) ==
    convertFromStandard(cl, targetAgentID, sourceConfig)

\* the branch of ConvertAgentConfig taken when no direct rule is loaded
ConvertThroughStandard(cl, sourceAgentID, targetAgentID, sourceConfig, sourceFormat, targetFormat) ==
    IF sourceFormat # "standard" /\ targetFormat # "standard"
    THEN With(convertToStandard(cl, sourceAgentID, sourceConfig),
              LAMBDA intermediateResult :
             IF intermediateResult.err
             THEN ConversionResult(FALSE, NilConfig, TRUE)
             ELSE convertFromStandard(cl, targetAgentID,
                                      intermediateResult.cfg.servers))
    ELSE ConversionResult(FALSE, NilConfig, TRUE)

ConvertAgentConfig(cl, sourceAgentID, targetAgentID, sourceConfig) ==
    With(GetAgentDefinition(cl, sourceAgentID), LAMBDA sourceAgent :
    With(GetAgentDefinition(cl, targetAgentID), LAMBDA targetAgent :
        IF sourceAgent.nil \/ targetAgent.nil
        THEN ConversionResult(FALSE, NilConfig, TRUE)
        ELSE IF sourceAgent.Format = targetAgent.Format
        THEN ConversionResult(TRUE, ConfigOf(sourceConfig), FALSE)
        ELSE With(GetTransformRule(cl, sourceAgent.Format, targetAgent.Format),
                  LAMBDA transform :
            IF transform.nil
            THEN ConvertThroughStandard(cl, sourceAgentID, targetAgentID,
                                        sourceConfig, sourceAgent.Format,
                                        targetAgent.Format)
            ELSE ConversionResult(
                     TRUE, ConfigOf(applyTransform(sourceConfig, transform.rule)),
                     FALSE))))

NoConversion == [op |-> "none", Success |-> FALSE, ConvertedConfig |-> NilConfig,
                 err |-> FALSE]

NoLoader == [Agents |-> [a \in {} |-> ""], Transforms |-> [k \in {} |-> 0]]

ConvIdle ==
    /\ cphase = "idle"
    /\ configLoader = NoLoader
    /\ srcAgent = "" /\ tgtAgent = ""
    /\ srcConfig = [s \in {} |-> 0]
    /\ conversion = NoConversion

NoServers == [s \in {} |-> 0]

NoDoc == [k \in {} |-> 0]

ToolFile(form, doc) == [form |-> form, doc |-> doc]

NoCall == [op |-> "none", err |-> FALSE, agentID |-> ""]

NoEntry == [set |-> FALSE, entry |-> NoDoc]

NoWriters == [w \in {} |-> 0]

CfgIdle ==
    /\ tool = ""
    /\ cfgFile = ToolFile("absent", NoDoc)
    /\ cfgCall = NoCall
    /\ pushed = NoEntry
    /\ writers = NoWriters
    /\ guard = FALSE

-----------------------------------------------------------------------------
(* AppService's push and pull over the installed tools, with what they      *)
(* record.  Here the documents are taken decoded: a tool's config file is    *)
(* "absent", "broken" (not JSON) or the value under its config key; an       *)
(* aggregate maps tool ids to entries, the entry of a tool being the map     *)
(* {config key: value}; what SecurityManager.Encrypt gives is the document   *)
(* sealed under the key, [key, doc].  dev is the device: [cfg, svc, gist,    *)
(* vdir, ldir, tools] for sync_config.json, AppService.gistSync, the Gist,   *)
(* the versions and logs directories (files by the second in their name)     *)
(* and the tools' config files.  The tools are of the standard format.       *)

\* the agents agents.yaml defines, in its order
ToolIDs == <<"claude", "cursor">>

KnownTools == { ToolIDs[i] : i \in 1..Len(ToolIDs) }

NoAgents == [id \in {} |-> 0]

\* DetectInstalledAgents: an agent's Status
AgentStatus(tools, agentID) ==
    IF tools[agentID] = "absent" THEN "not_installed" ELSE "detected"

\* GetAgentMCPConfig(agentID) = [ok, config]
GetAgentMCPConfig(tools, agentID) ==
    IF agentID \notin DOMAIN tools \/ tools[agentID] \in {"absent", "broken"}
    THEN [ok |-> FALSE, config |-> RawEntry("")]
    ELSE [ok |-> TRUE, config |-> MapEntry([k \in {"mcpServers"} |-> tools[agentID]])]

\* PushAllAgentsToGist's loop that stops at the first config it cannot read
RECURSIVE CollectUntilFailure(_, _, _)
CollectUntilFailure(tools, i, allAgentConfigs) ==
    IF i > Len(ToolIDs) THEN allAgentConfigs
    ELSE IF AgentStatus(tools, ToolIDs[i]) # "detected"
    THEN CollectUntilFailure(tools, i + 1, allAgentConfigs)
    ELSE IF ~GetAgentMCPConfig(tools, ToolIDs[i]).ok
    THEN allAgentConfigs
    ELSE CollectUntilFailure(
             tools, i + 1,
             (ToolIDs[i] :> GetAgentMCPConfig(tools, ToolIDs[i]).config)
                 @@ allAgentConfigs)

\* PushAllAgentsToGist's loop over the agents from the i-th on: a config
\* that cannot be read is left out
RECURSIVE CollectAgentConfigs(_, _, _)
CollectAgentConfigs(tools, i, allAgentConfigs) ==
    IF i > Len(ToolIDs) THEN allAgentConfigs
    ELSE IF AgentStatus(tools, ToolIDs[i]) # "detected"
    THEN CollectAgentConfigs(tools, i + 1, allAgentConfigs)
    ELSE IF ~GetAgentMCPConfig(tools, ToolIDs[i]).ok
    THEN CollectAgentConfigs(tools, i + 1, allAgentConfigs)
    ELSE CollectAgentConfigs(
             tools, i + 1,
             (ToolIDs[i] :> GetAgentMCPConfig(tools, ToolIDs[i]).config)
                 @@ allAgentConfigs)

\* SaveAgentMCPConfig(agentID, mcpServersConfig) = [ok, tools]: the value
\* under "mcpServers" replaces the file's, an input without the key leaves it
SaveAgentMCPConfig(tools, agentID, mcpServersConfig) ==
    IF agentID \notin DOMAIN tools \/ tools[agentID] \in {"absent", "broken"}
    THEN [ok |-> FALSE, tools |-> tools]
    ELSE IF "mcpServers" \in DOMAIN mcpServersConfig
    THEN [ok |-> TRUE, tools |-> [tools EXCEPT ![agentID] = mcpServersConfig["mcpServers"]]]
    ELSE [ok |-> TRUE, tools |-> tools]

\* the file of second Unix(now) written into a directory
WriteBySecond(dir, now, doc) == (Unix(now) :> doc) @@ dir

SyncLog(now, action, status) == [Timestamp |-> now, Action |-> action, Status |-> status]

\* SaveSyncLog(log): the file is sync_<unix second>.json
SaveSyncLog(ldir, log, now) == WriteBySecond(ldir, now, log)

ConfigVersion(now, content, source) ==
    [Timestamp |-> now, Content |-> content, Source |-> source, Hash |-> <<>>]

\* the sync config a device holds, with what the last sync left in it
SyncConfigDoc(token, gistID, enable, password, lastTime, lastStatus) ==
    [GitHubToken |-> token, GistID |-> gistID, EnableEncryption |-> enable,
     EncryptionPassword |-> password, LastSyncTime |-> lastTime,
     LastSyncStatus |-> lastStatus]

\* LoadSyncConfig() with no sync_config.json: LastSyncTime is time.Now()
DefaultSyncConfig(now) == SyncConfigDoc(<<>>, <<>>, FALSE, <<>>, now, "")

LoadSyncConfigDoc(cfg, now) == IF cfg.exists THEN cfg.doc ELSE DefaultSyncConfig(now)

SavedSyncConfig(doc) == [exists |-> TRUE, doc |-> doc]

\* the document PushAgentConfigsToGist uploads, the timestamp in RFC3339
AgentsPayload(agentConfigs, now) ==
    [agents |-> agentConfigs, timestamp |-> Unix(now), encrypted |-> TRUE]

Sealed(key, doc) == [key |-> key, doc |-> doc]

NoGist ==
    [exists |-> FALSE, sealed |-> FALSE, content |-> Sealed(<<>>, AgentsPayload(NoAgents, 0))]

GistHolding(sealed, content) == [exists |-> TRUE, sealed |-> sealed, content |-> content]

\* PushAgentConfigsToGist(agentConfigs) = [ok, gist, http], over documents
UploadAgentConfigs(gs, gist, agentConfigs, now) ==
    IF gs.gistID = <<>> \/ gs.githubToken = <<>>
    THEN [ok |-> FALSE, gist |-> gist, http |-> NoRequest]
    ELSE IF ~gs.encryptionEnabled \/ gs.securityMgr = <<>>
    THEN [ok |-> FALSE, gist |-> gist, http |-> NoRequest]
    ELSE IF ~gist.exists
    THEN [ok |-> FALSE, gist |-> gist, http |-> <<"PATCH">>]
    ELSE [ok |-> TRUE,
          gist |-> GistHolding(TRUE, Sealed(gs.securityMgr,
                                            AgentsPayload(agentConfigs, now))),
          http |-> <<"PATCH">>]

\* PullAgentConfigsFromGist() = [ok, agents]
PullAgentConfigsFromGist(gs, gist) ==
    IF gs.gistID = <<>> \/ gs.githubToken = <<>> THEN [ok |-> FALSE, agents |-> NoAgents]
    ELSE IF ~gist.exists THEN [ok |-> FALSE, agents |-> NoAgents]
    ELSE IF ~gist.sealed THEN [ok |-> TRUE, agents |-> gist.content.doc.agents]
    ELSE IF gs.encryptionEnabled /\ gs.securityMgr # <<>>
    THEN IF gist.content.key = gs.securityMgr
         THEN [ok |-> TRUE, agents |-> gist.content.doc.agents]
         ELSE [ok |-> FALSE, agents |-> NoAgents]
    ELSE [ok |-> FALSE, agents |-> NoAgents]

\* getLatestLocalVersion() over the versions directory: ListConfigVersions(1)
\* gives the file that is last by name, = [exists, version]
LatestVersionIn(vdir) ==
    IF DOMAIN vdir = {} THEN [exists |-> FALSE, version |-> ConfigVersion(0, NoAgents, "")]
    ELSE [exists |-> TRUE,
          version |-> vdir[CHOOSE sec \in DOMAIN vdir : \A other \in DOMAIN vdir : other <= sec]]

Handled(dev, err, panicked, applied) ==
    [dev |-> dev, err |-> err, panicked |-> panicked, applied |-> applied]

\* a failed push or pull that writes the sync time as well as its SyncLog
RecordFailureAsSync(dev, action, now) ==
    [dev EXCEPT !.cfg = SavedSyncConfig([LoadSyncConfigDoc(dev.cfg, now) EXCEPT
                                            !.LastSyncTime = now,
                                            !.LastSyncStatus = "failed"]),
                !.ldir = SaveSyncLog(dev.ldir, SyncLog(now, action, "failed"), now)]

\* what a push or pull records when the transfer failed: a SyncLog
RecordFailure(dev, action, now) ==
    [dev EXCEPT !.ldir = SaveSyncLog(dev.ldir, SyncLog(now, action, "failed"), now)]

\* "Update sync time": the sync config loaded again and saved with the time
\* and the status, then the SyncLog
RecordSuccess(dev, action, now) ==
    [dev EXCEPT !.cfg = SavedSyncConfig([LoadSyncConfigDoc(dev.cfg, now) EXCEPT
                                            !.LastSyncTime = now,
                                            !.LastSyncStatus = "success"]),
                !.ldir = SaveSyncLog(dev.ldir, SyncLog(now, action, "success"), now)]

\* PushAllAgentsToGist(), with the SyncLog and the sync time it records
AppPushAllAgentsToGist(dev, now) ==
    With(LoadSyncConfigDoc(dev.cfg, now), LAMBDA config :
      IF NotConfigured(config) THEN Handled(dev, TRUE, FALSE, {})
      ELSE
        With(EnsureGistSync(dev.svc, config), LAMBDA gs1 :
        With(CollectAgentConfigs(dev.tools, 1, NoAgents), LAMBDA allAgentConfigs :
        With(UploadAgentConfigs(gs1, dev.gist, allAgentConfigs, now), LAMBDA upload :
        With([dev EXCEPT !.svc = gs1, !.gist = upload.gist,
                         !.vdir = WriteBySecond(dev.vdir, now,
                                      ConfigVersion(now, allAgentConfigs, "local"))],
             LAMBDA dev1 :
          IF ~upload.ok
          THEN Handled(RecordFailure(dev1, "push", now), TRUE, FALSE, {})
          ELSE Handled(RecordSuccess(dev1, "push", now), FALSE, FALSE, {}))))))

\* PullFromGist's loop over the downloaded entries in the order the map
\* gives them, from the i-th on: [tools, applied, panicked].  The type
\* assertion on an entry that is not a map panics.
RECURSIVE ApplyAgentConfigs(_, _, _, _, _)
ApplyAgentConfigs(tools, agentConfigs, order, i, applied) ==
    IF i > Len(order) THEN [tools |-> tools, applied |-> applied, panicked |-> FALSE]
    ELSE IF ~agentConfigs[order[i]].isMap
    THEN [tools |-> tools, applied |-> applied, panicked |-> TRUE]
    ELSE With(SaveAgentMCPConfig(tools, order[i], agentConfigs[order[i]].fields),
              LAMBDA saved :
             ApplyAgentConfigs(saved.tools, agentConfigs, order, i + 1,
                               IF saved.ok THEN applied \cup {order[i]} ELSE applied))

\* PullFromGist(), order being the order the aggregate's range comes in
AppPullFromGist(dev, now, order) ==
    With(LoadSyncConfigDoc(dev.cfg, now), LAMBDA config :
      IF NotConfigured(config) THEN Handled(dev, TRUE, FALSE, {})
      ELSE
        With(EnsureGistSync(dev.svc, config), LAMBDA gs1 :
        With(PullAgentConfigsFromGist(gs1, dev.gist), LAMBDA pulled :
          IF ~pulled.ok
          THEN Handled(RecordFailure([dev EXCEPT !.svc = gs1], "pull", now),
                       TRUE, FALSE, {})
          ELSE
            With(ApplyAgentConfigs(dev.tools, pulled.agents, order, 1, {}),
                 LAMBDA loop :
            With([dev EXCEPT !.svc = gs1, !.tools = loop.tools,
                             !.vdir = WriteBySecond(dev.vdir, now,
                                          ConfigVersion(now, pulled.agents, "gist"))],
                 LAMBDA dev1 :
              IF loop.panicked THEN Handled(dev1, FALSE, TRUE, loop.applied)
              ELSE Handled(RecordSuccess(dev1, "pull", now), FALSE, FALSE,
                           loop.applied))))))

\* ResolveConflict where "merge" is left for later and does nothing
ResolveWithoutMerge(dev, conflictType, resolution, now, order) ==
    IF resolution = "keep_local" THEN AppPushAllAgentsToGist(dev, now)
    ELSE IF resolution = "use_remote" THEN AppPullFromGist(dev, now, order)
    ELSE IF resolution = "merge" THEN Handled(dev, FALSE, FALSE, {})
    ELSE Handled(dev, TRUE, FALSE, {})

\* ResolveConflict(conflictType, resolution), order being the order its
\* pull's range comes in
AppResolveConflict(dev, conflictType, resolution, now, order) ==
    IF resolution = "keep_local" THEN AppPushAllAgentsToGist(dev, now)
    ELSE IF resolution = "use_remote" THEN AppPullFromGist(dev, now, order)
    ELSE IF resolution = "merge" THEN AppPullFromGist(dev, now, order)
    ELSE Handled(dev, TRUE, FALSE, {})

\* one request to GitHub, or one write of a file, and whether it went well
Step(what, ok) == [what |-> what, ok |-> ok]

\* ValidateToken(), status being what GET /user is answered with (0 when no
\* response comes)
ValidateToken(gs, status) ==
    IF gs.githubToken = <<>> THEN [ok |-> FALSE, steps |-> <<>>]
    ELSE [ok |-> status = 200, steps |-> <<Step("GET /user", status = 200)>>]

\* ValidateGitHubToken(token)
ValidateGitHubToken(token, status) ==
    ValidateToken(NewGistSyncService(token, <<>>), status)

\* CreateGist([], description) = [ok, id, steps], status being what
\* POST /gists is answered with
CreateNewGist(gs, status) ==
    IF gs.githubToken = <<>> THEN [ok |-> FALSE, id |-> <<>>, steps |-> <<>>]
    ELSE [ok |-> status = 201,
          id |-> IF status = 201 THEN StrGistID ELSE <<>>,
          steps |-> <<Step("POST /gists", status = 201)>>]

\* the Gist CreateGist leaves: mcp-config.json in plaintext, with no agents
CreatedGist(now) == GistHolding(FALSE, Sealed(<<>>, AgentsPayload(NoAgents, now)))

Bound(dev, err, id, steps) == [dev |-> dev, err |-> err, id |-> id, steps |-> steps]

\* AppService.InitializeGistSync(token, gistID), diskOK being whether
\* sync_config.json can be written
AppServiceInitializeGistSync(dev, token, gistID, now, postStatus, diskOK) ==
    With(CreateNewGist(NewGistSyncService(token, <<>>), postStatus), LAMBDA created :
      IF gistID = <<>> /\ ~created.ok THEN Bound(dev, TRUE, <<>>, created.steps)
      ELSE
        With(IF gistID = <<>> THEN created.id ELSE gistID, LAMBDA id :
        With(IF gistID = <<>> THEN created.steps ELSE <<>>, LAMBDA steps :
        With([dev EXCEPT !.svc = NewGistSyncService(token, id),
                         !.gist = IF gistID = <<>> THEN CreatedGist(now) ELSE @],
             LAMBDA dev1 :
          IF ~diskOK
          THEN Bound(dev1, TRUE, <<>>, steps \o <<Step("sync_config.json", FALSE)>>)
          ELSE Bound([dev1 EXCEPT !.cfg = SavedSyncConfig(
                                      [LoadSyncConfigDoc(dev.cfg, now) EXCEPT
                                          !.GitHubToken = token, !.GistID = id])],
                     FALSE, id, steps \o <<Step("sync_config.json", TRUE)>>)))))

\* InitializeGistSync without the validation of the token
InitializeUnvalidated(dev, token, gistID, now, userStatus, postStatus, diskOK) ==
    AppServiceInitializeGistSync(dev, token, gistID, now, postStatus, diskOK)

\* App.InitializeGistSync(token, gistID)
FacadeInitializeGistSync(dev, token, gistID, now, userStatus, postStatus, diskOK) ==
    With(ValidateGitHubToken(token, userStatus), LAMBDA valid :
      IF ~valid.ok THEN Bound(dev, TRUE, <<>>, valid.steps)
      ELSE With(AppServiceInitializeGistSync(dev, token, gistID, now, postStatus,
                                             diskOK),
                LAMBDA bound : [bound EXCEPT !.steps = valid.steps \o @]))

-----------------------------------------------------------------------------
(* What the runs range over *)

MaxKeySeeds   == 2      \* distinct keys generateRandomKey can give
MaxNonceSeeds == 1      \* distinct nonces rand.Reader can give

RandomKeys == { [i \in 1..KeySize |-> seed] : seed \in 1..MaxKeySeeds }
Nonces     == { [i \in 1..NonceSize |-> seed] : seed \in 1..MaxNonceSeeds }

Passwords ==
    { <<97>>,                  \* "a"
      <<112, 119>> }           \* "pw"

\* Marshalled JSON documents, as the Save... handlers hand them to encryptIfNeeded
Documents ==
    { <<123, 125>>,            \* "{}"
      <<123, 49, 125>> }       \* "{1}"

\* Arbitrary blobs: the empty one, a document, and a plaintext that happens to
\* start with the tag
Plaintexts ==
    { <<>>,
      <<123, 125>>,            \* "{}"
      <<69, 78, 67, 58, 120>> }   \* "ENC:x"

NoEncState == [up |-> TRUE, kr |-> <<>>, sm |-> <<>>, old |-> FALSE]

NoRes == [op |-> "none", ok |-> TRUE, in |-> <<>>, out |-> <<>>, st |-> NoEncState,
          chained |-> FALSE, gPlain |-> <<>>, gSt |-> NoEncState]

NoFile == [exists |-> FALSE, data |-> <<>>, plain |-> <<>>, gen |-> "none",
           key |-> <<>>, preMig |-> TRUE]

WrapIdle ==
    /\ wphase = "idle"
    /\ wcommand = <<>> /\ wargs = <<>>
    /\ wrappedCmd = <<>> /\ wrappedArgs = <<>>
    /\ outCmd = <<>> /\ outArgs = <<>>

NoConfigFile == [exists |-> FALSE, data |-> <<>>]

NoGistSync ==
    [set |-> FALSE, githubToken |-> <<>>, gistID |-> <<>>,
     encryptionEnabled |-> FALSE, securityMgr |-> <<>>]

NoSyncRes == [op |-> "none", err |-> FALSE, conflict |-> "nil", ctype |-> "", http |-> <<>>]

SyncIdle ==
    /\ clock = 0
    /\ agentsCfg = <<>>
    /\ configFile = NoConfigFile
    /\ versions = <<>>
    /\ gistSync = NoGistSync
    /\ remote = NoRemote
    /\ sres = NoSyncRes
    /\ pushedHash = <<>>

NoRet == [op |-> "none", err |-> FALSE, panicked |-> FALSE, applied |-> {}]

NoBind == [token |-> <<>>, gistID |-> <<>>, id |-> <<>>, steps |-> <<>>]

NoResolving == [conflictType |-> "", resolution |-> ""]

DeskIdle ==
    /\ wall = 0
    /\ toolFiles = NoAgents
    /\ syncDoc = [exists |-> FALSE, doc |-> DefaultSyncConfig(0)]
    /\ service = NoGistSync
    /\ gistDoc = NoGist
    /\ versionDir = NoAgents
    /\ logDir = NoAgents
    /\ ret = NoRet
    /\ bind = NoBind
    /\ resolving = NoResolving

CryptoIdle ==
    /\ cryptoAvail = TRUE
    /\ keyringUp = TRUE
    /\ keyringKey = <<>>
    /\ securityMgr = <<>>
    /\ oldEnabled = FALSE
    /\ file = NoFile
    /\ res = NoRes
    /\ lifecycle = "never"
    /\ migratedPw = <<>>

InitWrap ==
    /\ DeskIdle
    /\ ConvIdle
    /\ CfgIdle
    /\ goos \in {"windows", "linux"}
    /\ CryptoIdle
    /\ SyncIdle
    /\ wphase = "input"
    /\ wcommand \in WrapCommands
    /\ wargs \in SeqsUpTo(WrapArgValues, MaxArgs)
    /\ wrappedCmd = <<>> /\ wrappedArgs = <<>>
    /\ outCmd = <<>> /\ outArgs = <<>>

DoWrap ==
    /\ wphase = "input"
    /\ LET r == WrapNpxCommand(wcommand, wargs)
       IN  /\ wrappedCmd' = r[1]
           /\ wrappedArgs' = r[2]
    /\ wphase' = "wrapped"
    /\ UNCHANGED <<goos, wcommand, wargs, outCmd, outArgs>>
    /\ UNCHANGED cryptoVars
    /\ UNCHANGED syncVars
    /\ UNCHANGED <<convVars, cfgVars, deskVars>>

DoUnwrap ==
    /\ wphase = "wrapped"
    /\ LET r == UnwrapNpxCommand(wrappedCmd, wrappedArgs)
       IN  /\ outCmd' = r[1]
           /\ outArgs' = r[2]
    /\ wphase' = "unwrapped"
    /\ UNCHANGED <<goos, wcommand, wargs, wrappedCmd, wrappedArgs>>
    /\ UNCHANGED cryptoVars
    /\ UNCHANGED syncVars
    /\ UNCHANGED <<convVars, cfgVars, deskVars>>

NextWrap ==
    \/ DoWrap
    \/ DoUnwrap

SpecWrap == InitWrap /\ [][NextWrap]_vars


-----------------------------------------------------------------------------
(* SecureCrypto and StorageService: a fresh installation of this release,    *)
(* which may find a file the previous release wrote under a password.        *)

EncState == [up |-> keyringUp, kr |-> keyringKey, sm |-> securityMgr, old |-> oldEnabled]

Result(op, r, in) ==
    [op |-> op, ok |-> r.ok, in |-> in, out |-> IF r.ok THEN r.out ELSE <<>>,
     st |-> EncState, chained |-> FALSE, gPlain |-> <<>>, gSt |-> NoEncState]

Done(op, ok) ==
    [op |-> op, ok |-> ok, in |-> <<>>, out |-> <<>>,
     st |-> NoEncState, chained |-> FALSE, gPlain |-> <<>>, gSt |-> NoEncState]

LegacyFiles ==
    { [exists |-> TRUE,
       data |-> LegacyEncryptIfNeeded(pw, n, d).out,
       plain |-> d, gen |-> "gen1", key |-> NewSecurityManager(pw), preMig |-> TRUE]
      : pw \in Passwords, n \in Nonces, d \in Documents }

InitCrypto ==
    /\ DeskIdle
    /\ ConvIdle
    /\ CfgIdle
    /\ goos \in {"windows", "linux"}
    /\ WrapIdle
    /\ SyncIdle
    /\ cryptoAvail \in BOOLEAN
    /\ keyringUp = TRUE
    /\ keyringKey = <<>>
    /\ securityMgr = <<>>
    /\ oldEnabled = FALSE
    /\ file = NoFile
    /\ res = NoRes
    /\ lifecycle = "never"
    /\ migratedPw = <<>>

InitStorage ==
    /\ DeskIdle
    /\ ConvIdle
    /\ CfgIdle
    /\ goos = "linux"
    /\ WrapIdle
    /\ SyncIdle
    /\ cryptoAvail \in BOOLEAN
    /\ keyringUp = TRUE
    /\ keyringKey = <<>>
    /\ securityMgr = <<>>
    /\ oldEnabled = FALSE
    /\ file \in {NoFile} \cup LegacyFiles
    /\ res = NoRes
    /\ lifecycle = "never"
    /\ migratedPw = <<>>

\* The environment: the secret store stops or starts answering.
KeyringOutage ==
    /\ keyringUp' = ~keyringUp
    /\ UNCHANGED <<cryptoAvail, keyringKey, securityMgr, oldEnabled, file, res,
                   lifecycle, migratedPw>>
    /\ UNCHANGED <<wrapVars, convVars, cfgVars, deskVars>>
    /\ UNCHANGED syncVars

\* SecureCrypto.Enable()
SCEnable ==
    /\ cryptoAvail
    /\ \E newKey \in (IF IsEnabled(keyringKey) THEN {<<>>} ELSE RandomKeys) :
         LET r == Enable(keyringKey, newKey)
         IN  /\ keyringKey' = r.kr
             /\ lifecycle' = IF r.ok THEN "enabled" ELSE lifecycle
             /\ res' = Done("Enable", r.ok)
    /\ UNCHANGED <<cryptoAvail, keyringUp, securityMgr, oldEnabled, file, migratedPw>>
    /\ UNCHANGED <<wrapVars, convVars, cfgVars, deskVars>>
    /\ UNCHANGED syncVars

\* SecureCrypto.Disable()
SCDisable ==
    /\ cryptoAvail
    /\ LET r == Disable(keyringKey)
       IN  /\ keyringKey' = r.kr
           /\ lifecycle' = IF r.ok THEN "disabled" ELSE lifecycle
           /\ res' = Done("Disable", r.ok)
    /\ UNCHANGED <<cryptoAvail, keyringUp, securityMgr, oldEnabled, file, migratedPw>>
    /\ UNCHANGED <<wrapVars, convVars, cfgVars, deskVars>>
    /\ UNCHANGED syncVars

\* SecureCrypto.Encrypt(plaintext)
SCEncrypt ==
    /\ cryptoAvail
    /\ \E p \in Plaintexts, nonce \in Nonces :
         res' = Result("Encrypt", Encrypt(keyringKey, nonce, p), p)
    /\ UNCHANGED <<cryptoAvail, keyringUp, keyringKey, securityMgr, oldEnabled, file,
                   lifecycle, migratedPw>>
    /\ UNCHANGED <<wrapVars, convVars, cfgVars, deskVars>>
    /\ UNCHANGED syncVars

\* SecureCrypto.Decrypt(ciphertext), of what the last Encrypt returned
SCDecrypt ==
    /\ cryptoAvail
    /\ res.op = "Encrypt" /\ res.ok
    /\ res' = [Result("Decrypt", Decrypt(keyringKey, res.out), res.out)
                 EXCEPT !.chained = TRUE, !.gPlain = res.in, !.gSt = res.st]
    /\ UNCHANGED <<cryptoAvail, keyringUp, keyringKey, securityMgr, oldEnabled, file,
                   lifecycle, migratedPw>>
    /\ UNCHANGED <<wrapVars, convVars, cfgVars, deskVars>>
    /\ UNCHANGED syncVars

\* StorageService.encryptIfNeeded(data), of a blob or of what the last call of
\* it returned
CallEncryptIfNeeded ==
    /\ \E nonce \in Nonces :
         \/ \E x \in Plaintexts :
              res' = Result("encryptIfNeeded",
                            encryptIfNeeded(keyringKey, securityMgr, oldEnabled, nonce, x), x)
         \/ /\ res.op = "encryptIfNeeded" /\ res.ok
            /\ res' = [Result("encryptIfNeeded",
                              encryptIfNeeded(keyringKey, securityMgr, oldEnabled, nonce, res.out),
                              res.out)
                         EXCEPT !.chained = TRUE, !.gPlain = res.in, !.gSt = res.st]
    /\ UNCHANGED <<cryptoAvail, keyringUp, keyringKey, securityMgr, oldEnabled, file,
                   lifecycle, migratedPw>>
    /\ UNCHANGED <<wrapVars, convVars, cfgVars, deskVars>>
    /\ UNCHANGED syncVars

\* StorageService.EnableEncryption(password)
EnableEncryption ==
    /\ \E password \in {<<>>} \cup Passwords,
          newKey \in (IF IsEnabled(keyringKey) THEN {<<>>} ELSE RandomKeys) :
         LET e == EnableEncryptionOf(keyringKey, securityMgr, oldEnabled, password, newKey)
         IN  /\ keyringKey' = e.kr
             /\ securityMgr' = e.sm
             /\ oldEnabled' = e.old
             /\ lifecycle' = IF e.enabled THEN "enabled" ELSE lifecycle
             /\ migratedPw' = IF e.migrated THEN password ELSE migratedPw
    /\ res' = Done("EnableEncryption", TRUE)
    /\ UNCHANGED <<cryptoAvail, keyringUp, file>>
    /\ UNCHANGED <<wrapVars, convVars, cfgVars, deskVars>>
    /\ UNCHANGED syncVars

\* StorageService.DisableEncryption()
DisableEncryption ==
    /\ IF cryptoAvail /\ IsEnabled(keyringKey)
       THEN LET d == Disable(keyringKey)
            IN  IF ~d.ok
                THEN /\ res' = Done("DisableEncryption", FALSE)
                     /\ UNCHANGED <<keyringKey, securityMgr, oldEnabled, lifecycle, migratedPw>>
                ELSE /\ keyringKey' = d.kr
                     /\ lifecycle' = "disabled"
                     /\ securityMgr' = <<>>
                     /\ oldEnabled' = FALSE
                     /\ migratedPw' = <<>>
                     /\ res' = Done("DisableEncryption", TRUE)
       ELSE /\ securityMgr' = <<>>
            /\ oldEnabled' = FALSE
            /\ migratedPw' = <<>>
            /\ res' = Done("DisableEncryption", TRUE)
            /\ UNCHANGED <<keyringKey, lifecycle>>
    /\ UNCHANGED <<cryptoAvail, keyringUp, file>>
    /\ UNCHANGED <<wrapVars, convVars, cfgVars, deskVars>>
    /\ UNCHANGED syncVars

\* StorageService.SaveConfigVersion, on the one file: the marshalled document
\* goes through encryptIfNeeded and replaces the file; nothing is written on
\* an error.
WriteConfigVersion ==
    /\ \E d \in Documents, nonce \in Nonces :
         LET r == encryptIfNeeded(keyringKey, securityMgr, oldEnabled, nonce, d)
             gen2 == cryptoAvail /\ IsEnabled(keyringKey)
             gen1 == ~gen2 /\ securityMgr # <<>> /\ oldEnabled
         IN  /\ res' = Done("SaveConfigVersion", r.ok)
             /\ file' = IF ~r.ok THEN file
                        ELSE [exists |-> TRUE, data |-> r.out, plain |-> d,
                              gen |-> IF gen2 THEN "gen2" ELSE IF gen1 THEN "gen1" ELSE "plain",
                              key |-> IF gen2 THEN keyringKey ELSE IF gen1 THEN securityMgr ELSE <<>>,
                              preMig |-> migratedPw = <<>>]
    /\ UNCHANGED <<cryptoAvail, keyringUp, keyringKey, securityMgr, oldEnabled,
                   lifecycle, migratedPw>>
    /\ UNCHANGED <<wrapVars, convVars, cfgVars, deskVars>>
    /\ UNCHANGED syncVars

\* StorageService.ListConfigVersions, for the one file: read it and put it
\* through decryptIfNeeded.
ReadConfigVersion ==
    /\ file.exists
    /\ res' = Result("decryptIfNeeded",
                     decryptIfNeeded(keyringKey, securityMgr, oldEnabled, file.data),
                     file.data)
    /\ UNCHANGED <<cryptoAvail, keyringUp, keyringKey, securityMgr, oldEnabled, file,
                   lifecycle, migratedPw>>
    /\ UNCHANGED <<wrapVars, convVars, cfgVars, deskVars>>
    /\ UNCHANGED syncVars

NextCrypto ==
    \/ KeyringOutage
    \/ SCEnable
    \/ SCDisable
    \/ SCEncrypt
    \/ SCDecrypt
    \/ CallEncryptIfNeeded
    \/ EnableEncryption
    \/ DisableEncryption

SpecCrypto == InitCrypto /\ [][NextCrypto]_vars

NextStorage ==
    \/ KeyringOutage
    \/ EnableEncryption
    \/ DisableEncryption
    \/ WriteConfigVersion
    \/ ReadConfigVersion

SpecStorage == InitStorage /\ [][NextStorage]_vars

-----------------------------------------------------------------------------
(* The sync engine: one device, started with the Gist sync service not yet   *)
(* built and whatever sync_config.json an earlier run left, and the Gist,    *)
(* which other devices write too.  The device is one whose keyring could not *)
(* be opened when the storage service was built (StorageService.crypto is    *)
(* nil), so its own files are plaintext.                                     *)

MaxClock == 2

StrToken == <<116>>      \* a GitHub token

EmptyGist == [exists |-> TRUE, hasFile |-> FALSE, content |-> <<>>]

PersistedConfigs ==
    { [DefaultConfig EXCEPT !.GitHubToken = StrToken, !.GistID = StrGistID],
      [DefaultConfig EXCEPT !.GitHubToken = StrToken, !.GistID = StrGistID,
                            !.EnableEncryption = TRUE,
                            !.EncryptionPassword = <<97>>] }

\* What another device, or a hand, can leave in the Gist at a time
RemoteStates(now) ==
    {NoRemote, EmptyGist}
    \cup { [exists |-> TRUE, hasFile |-> TRUE, content |-> d] : d \in Documents }
    \cup { [exists |-> TRUE, hasFile |-> TRUE,
            content |-> SecurityManagerEncrypt(NewSecurityManager(pw), n,
                            MarshalPayload(KeyAgents, <<123, 125>>, now, TRUE)).out]
           : pw \in Passwords, n \in {[i \in 1..NonceSize |-> 1]} }

InitSync ==
    /\ DeskIdle
    /\ ConvIdle
    /\ CfgIdle
    /\ goos = "linux"
    /\ WrapIdle
    /\ cryptoAvail = FALSE
    /\ keyringUp = TRUE
    /\ keyringKey = <<>>
    /\ securityMgr = <<>>
    /\ oldEnabled = FALSE
    /\ file = NoFile
    /\ res = NoRes
    /\ lifecycle = "never"
    /\ migratedPw = <<>>
    /\ clock = 0
    /\ agentsCfg = <<123, 125>>
    /\ configFile \in {NoConfigFile}
                      \cup { [exists |-> TRUE, data |-> MarshalConfig(c)]
                             : c \in PersistedConfigs }
    /\ versions = <<>>
    /\ gistSync = NoGistSync
    /\ remote \in {NoRemote, EmptyGist}
    /\ sres = NoSyncRes
    /\ pushedHash = <<>>

Stor ==
    [kr |-> keyringKey, sm |-> securityMgr, old |-> oldEnabled, lc |-> lifecycle,
     mp |-> migratedPw, cf |-> configFile, vs |-> versions]

\* what generateRandomKey can give, where a call can come to ask it
KeyDraws == IF cryptoAvail /\ ~IsEnabled(keyringKey) THEN RandomKeys ELSE {<<>>}

\* what rand.Reader can give the storage for a nonce, where it can come to ask
StorageNonces ==
    IF cryptoAvail \/ securityMgr # <<>> THEN Nonces ELSE {[i \in 1..NonceSize |-> 1]}

\* An AppService call returns: its outcome becomes the state
Return(op, o) ==
    /\ keyringKey' = o.st.kr
    /\ securityMgr' = o.st.sm
    /\ oldEnabled' = o.st.old
    /\ lifecycle' = o.st.lc
    /\ migratedPw' = o.st.mp
    /\ configFile' = o.st.cf
    /\ versions' = o.st.vs
    /\ gistSync' = o.gs
    /\ remote' = o.rm
    /\ sres' = [op |-> op, err |-> o.err, conflict |-> o.conflict, ctype |-> o.ctype,
                http |-> o.http]
    /\ pushedHash' = IF op = "PushAllAgentsToGist" /\ ~o.err
                     THEN GetLatestVersion(o.gs, o.rm, clock).version.Hash
                     ELSE IF o.rm # remote THEN <<>> ELSE pushedHash
    /\ UNCHANGED <<cryptoAvail, keyringUp, file, res, clock, agentsCfg>>
    /\ UNCHANGED <<wrapVars, convVars, cfgVars, deskVars>>

\* The environment: time passes
Tick ==
    /\ clock < MaxClock
    /\ clock' = clock + 1
    /\ sres' = NoSyncRes
    /\ UNCHANGED <<agentsCfg, configFile, versions, gistSync, remote, pushedHash>>
    /\ UNCHANGED <<wrapVars, cryptoVars, convVars, cfgVars, deskVars>>

\* The environment: the Gist is deleted, emptied or written by someone else
RemoteChange ==
    /\ \E rm \in RemoteStates(clock) \ {remote} : remote' = rm
    /\ sres' = NoSyncRes
    /\ pushedHash' = <<>>
    /\ UNCHANGED <<clock, agentsCfg, configFile, versions, gistSync>>
    /\ UNCHANGED <<wrapVars, cryptoVars, convVars, cfgVars, deskVars>>

InitializeGistSync ==
    \E gistID \in {<<>>, StrGistID}, newKey \in KeyDraws, nonce \in StorageNonces :
        Return("InitializeGistSync",
               InitializeGistSyncOf(Stor, gistSync, remote, StrToken, gistID, clock,
                                    newKey, nonce))

\* what the settings dialog can send: encryption on with a password, on with
\* the field left empty, or off
EncryptionSettings == { <<TRUE, <<97>>>>, <<TRUE, <<>>>>, <<FALSE, <<>>>> }

SetupGistEncryption ==
    \E setting \in EncryptionSettings, newKey \in KeyDraws, nonce \in StorageNonces :
        Return("SetupGistEncryption",
               SetupGistEncryptionOf(Stor, gistSync, remote, setting[1], setting[2],
                                     newKey, nonce))

PushAllAgentsToGist ==
    \E newKey \in KeyDraws, nonce \in StorageNonces, gcmNonce \in Nonces :
        Return("PushAllAgentsToGist",
               PushAllAgentsToGistOf(Stor, gistSync, remote, agentsCfg, clock,
                                     newKey, nonce, gcmNonce))

PushToGist ==
    \E newKey \in KeyDraws, nonce \in StorageNonces, gcmNonce \in Nonces :
        Return("PushToGist",
               PushToGistOf(Stor, gistSync, remote, StrEmptyList, clock, newKey, nonce,
                            gcmNonce))

DetectPushConflict ==
    \E newKey \in KeyDraws, nonce \in StorageNonces :
        Return("DetectPushConflict",
               DetectPushConflictOf(Stor, gistSync, remote, clock, newKey, nonce))

DetectPullConflict ==
    \E newKey \in KeyDraws, nonce \in StorageNonces :
        Return("DetectPullConflict",
               DetectPullConflictOf(Stor, gistSync, remote, clock, newKey, nonce))

NextSync ==
    \/ Tick
    \/ RemoteChange
    \/ InitializeGistSync
    \/ SetupGistEncryption
    \/ PushAllAgentsToGist
    \/ PushToGist
    \/ DetectPushConflict
    \/ DetectPullConflict

SpecSync == InitSync /\ [][NextSync]_vars

-----------------------------------------------------------------------------
(* The converter: a registry loaded from agents.yaml, then one call of       *)
(* ConvertAgentConfig on a config read from the source agent's file.         *)

Fields == {"command", "source"}

\* the maps with fields among Fields, every field holding v
FieldMaps(v) == UNION { [d -> {v}] : d \in SUBSET Fields }

\* a config of a server "srv" that is a map of npx fields and an entry "raw"
\* that is not a map, each present or not
SourceConfigs ==
    { [s \in d |-> IF s = "raw" THEN RawEntry("text") ELSE MapEntry(m)] :
        d \in SUBSET {"srv", "raw"}, m \in FieldMaps("npx") }

\* the rules over Fields; what a rule adds is "custom"
TransformRules ==
    { TransformRule(add, remove, keep) :
        add \in FieldMaps("custom"), remove \in SUBSET Fields, keep \in SUBSET Fields }

AgentFormats == [claude |-> "standard", zed |-> "zed", codex |-> "codex_toml"]

AgentIDs == {"claude", "zed", "codex", "nova"}

FormatOf(agentID) ==
    IF agentID \in DOMAIN AgentFormats THEN AgentFormats[agentID] ELSE "standard"

\* the rule keys a conversion from one agent to another may look up: the
\* direct one and, between two formats that are not the standard one, the legs
RuleKeys(src, tgt) ==
    IF src \notin DOMAIN AgentFormats \/ tgt \notin DOMAIN AgentFormats
       \/ FormatOf(src) = FormatOf(tgt)
    THEN {}
    ELSE {<<FormatOf(src), FormatOf(tgt)>>}
         \cup IF FormatOf(src) # "standard" /\ FormatOf(tgt) # "standard"
              THEN {<<FormatOf(src), "standard">>, <<"standard", FormatOf(tgt)>>}
              ELSE {}

\* a registry with rules under the keys of present: toRule for the ones out
\* of a tool's format, fromRule for the ones out of the standard format
LoaderOf(present, toRule, fromRule) ==
    [Agents |-> AgentFormats,
     Transforms |->
        [k \in { TransformKey(p[1], p[2]) : p \in present } |->
            IF \E p \in present : p[1] = "standard" /\ k = TransformKey(p[1], p[2])
            THEN fromRule ELSE toRule]]

InitConvert ==
    /\ DeskIdle
    /\ CfgIdle
    /\ goos = "linux"
    /\ WrapIdle
    /\ CryptoIdle
    /\ SyncIdle
    /\ cphase = "loaded"
    /\ srcAgent \in AgentIDs
    /\ tgtAgent \in AgentIDs
    /\ \E present \in SUBSET RuleKeys(srcAgent, tgtAgent) :
       \E toRule \in TransformRules, fromRule \in TransformRules :
           configLoader = LoaderOf(present, toRule, fromRule)
    /\ srcConfig = [s \in {} |-> 0]
    /\ conversion = NoConversion

\* ConvertAgentConfig(srcAgent, tgtAgent, config), for any config read
Convert ==
    /\ cphase = "loaded"
    /\ \E config \in SourceConfigs :
        /\ srcConfig' = config
        /\ With(ConvertAgentConfig(configLoader, srcAgent, tgtAgent, config),
                LAMBDA r :
               conversion' = [op |-> "ConvertAgentConfig", Success |-> r.Success,
                              ConvertedConfig |-> r.ConvertedConfig, err |-> r.err])
    /\ cphase' = "done"
    /\ UNCHANGED <<configLoader, srcAgent, tgtAgent>>
    /\ UNCHANGED <<wrapVars, cryptoVars, syncVars, deskVars, cfgVars>>

NextConvert == Convert

SpecConvert == InitConvert /\ [][NextConvert]_vars

-----------------------------------------------------------------------------
(* The device's push and pull over its tools: the Gist sync service not   *)
(* yet built, whatever sync config and tool files the device has, and a    *)
(* Gist others write too.                                                  *)

\* the sync config files a device can start with: none, one with the
\* credentials and no encryption password, one with Gist encryption set up
StartSyncDocs ==
    { [exists |-> FALSE, doc |-> DefaultSyncConfig(0)],
      SavedSyncConfig(SyncConfigDoc(StrToken, StrGistID, FALSE, <<>>, 0, "")),
      SavedSyncConfig(SyncConfigDoc(StrToken, StrGistID, TRUE, <<97>>, 0, "")) }

\* an entry as a push stores it, and one that is not a JSON object
ObjectEntry(v) == MapEntry([k \in {"mcpServers"} |-> v])

\* the aggregates another device, or a hand, can have left in the Gist:
\* entries for the two tools and for a tool this registry does not define
ForeignAggregates ==
    { [id \in ids |-> IF id = "cursor" /\ ~cursorIsObject
                      THEN RawEntry("text") ELSE ObjectEntry("B")] :
        ids \in SUBSET {"claude", "cursor", "ghost"}, cursorIsObject \in BOOLEAN }

StartGists ==
    {NoGist, GistHolding(FALSE, Sealed(<<>>, AgentsPayload(NoAgents, 0)))}
    \cup { GistHolding(TRUE, Sealed(NewSecurityManager(pw), AgentsPayload(a, 0))) :
             pw \in {<<97>>, <<98>>}, a \in ForeignAggregates }

InitDesk ==
    /\ goos = "linux"
    /\ WrapIdle
    /\ CryptoIdle
    /\ SyncIdle
    /\ ConvIdle
    /\ CfgIdle
    /\ wall = 0
    /\ toolFiles \in [KnownTools -> {"absent", "broken", "A"}]
    /\ syncDoc \in StartSyncDocs
    /\ service = NoGistSync
    /\ gistDoc \in StartGists
    /\ versionDir = NoAgents
    /\ logDir = NoAgents
    /\ ret = NoRet
    /\ bind = NoBind
    /\ resolving = NoResolving

Dev ==
    [cfg |-> syncDoc, svc |-> service, gist |-> gistDoc, vdir |-> versionDir,
     ldir |-> logDir, tools |-> toolFiles]

\* a handler ends: what it left becomes the state
Ends(op, o) ==
    /\ syncDoc' = o.dev.cfg
    /\ service' = o.dev.svc
    /\ gistDoc' = o.dev.gist
    /\ versionDir' = o.dev.vdir
    /\ logDir' = o.dev.ldir
    /\ toolFiles' = o.dev.tools
    /\ ret' = [op |-> op, err |-> o.err, panicked |-> o.panicked, applied |-> o.applied]
    /\ bind' = NoBind
    /\ UNCHANGED wall
    /\ UNCHANGED <<wrapVars, cryptoVars, syncVars, convVars, cfgVars>>

\* The environment: time passes
WallTick ==
    /\ wall < MaxClock
    /\ wall' = wall + 1
    /\ ret' = NoRet
    /\ bind' = NoBind
    /\ resolving' = NoResolving
    /\ UNCHANGED <<toolFiles, syncDoc, service, gistDoc, versionDir, logDir>>
    /\ UNCHANGED <<wrapVars, cryptoVars, syncVars, convVars, cfgVars>>

\* The environment: the Gist is deleted
GistDeleted ==
    /\ gistDoc.exists
    /\ gistDoc' = NoGist
    /\ ret' = NoRet
    /\ bind' = NoBind
    /\ resolving' = NoResolving
    /\ UNCHANGED <<wall, toolFiles, syncDoc, service, versionDir, logDir>>
    /\ UNCHANGED <<wrapVars, cryptoVars, syncVars, convVars, cfgVars>>

PushAllAgents ==
    /\ Ends("PushAllAgentsToGist", AppPushAllAgentsToGist(Dev, wall))
    /\ resolving' = NoResolving

\* the orders a range over a map's keys can come in
Orders(keys) ==
    { order \in [1..Cardinality(keys) -> keys] :
        \A i, j \in 1..Cardinality(keys) : i # j => order[i] # order[j] }

\* what a pull would download, for the orders its loop can take
Downloaded ==
    PullAgentConfigsFromGist(
        EnsureGistSync(service, LoadSyncConfigDoc(syncDoc, wall)), gistDoc).agents

PullAgents ==
    \E order \in Orders(DOMAIN Downloaded) :
        /\ Ends("PullFromGist", AppPullFromGist(Dev, wall, order))
        /\ resolving' = NoResolving

StrBadToken == <<120>>       \* a token GitHub does not know

StrOtherGistID == <<104>>    \* the id of a Gist made elsewhere

\* what GitHub answers a request carrying the token, ok for one it accepts:
\* ok, 401, or nothing when it cannot be reached
Answers(token, ok) == {IF token = StrToken THEN ok ELSE 401, 0}

\* InitializeGistSync returns: what it left becomes the state
Binds(token, gistID, o) ==
    /\ syncDoc' = o.dev.cfg
    /\ service' = o.dev.svc
    /\ gistDoc' = o.dev.gist
    /\ ret' = [op |-> "InitializeGistSync", err |-> o.err, panicked |-> FALSE,
               applied |-> {}]
    /\ bind' = [token |-> token, gistID |-> gistID, id |-> o.id, steps |-> o.steps]
    /\ resolving' = NoResolving
    /\ UNCHANGED <<wall, toolFiles, versionDir, logDir>>
    /\ UNCHANGED <<wrapVars, cryptoVars, syncVars, convVars, cfgVars>>

\* App.InitializeGistSync(token, gistID), as the settings dialog calls it
InitializeSync ==
    \E token \in {<<>>, StrToken, StrBadToken},
       gistID \in {<<>>, StrGistID, StrOtherGistID}, diskOK \in BOOLEAN :
      \E userStatus \in Answers(token, 200), postStatus \in Answers(token, 201) :
        Binds(token, gistID,
              FacadeInitializeGistSync(Dev, token, gistID, wall, userStatus,
                                       postStatus, diskOK))

\* Setting the sync up: a device that has no tools yet, with the sync
\* config an earlier run left, and a Gist that is there or not
InitBind ==
    /\ goos = "linux"
    /\ WrapIdle
    /\ CryptoIdle
    /\ SyncIdle
    /\ ConvIdle
    /\ CfgIdle
    /\ wall = 0
    /\ toolFiles = [id \in KnownTools |-> "absent"]
    /\ syncDoc \in StartSyncDocs
    /\ service = NoGistSync
    /\ gistDoc \in {NoGist, CreatedGist(0)}
    /\ versionDir = NoAgents
    /\ logDir = NoAgents
    /\ ret = NoRet
    /\ bind = NoBind
    /\ resolving = NoResolving

NextBind ==
    \/ WallTick
    \/ GistDeleted
    \/ InitializeSync

SpecBind == InitBind /\ [][NextBind]_vars

\* what the conflict dialog can send, and a resolution the core does not know
ConflictTypes == {"push_conflict", "pull_conflict"}

Resolutions == {"keep_local", "use_remote", "merge", "ask_later"}

ResolveConflict ==
    \E conflictType \in ConflictTypes, resolution \in Resolutions,
       order \in Orders(DOMAIN Downloaded) :
        /\ Ends("ResolveConflict",
                AppResolveConflict(Dev, conflictType, resolution, wall, order))
        /\ resolving' = [conflictType |-> conflictType, resolution |-> resolution]

\* Conflicts resolved: the device of SpecDesk, every sync being the outcome
\* of a conflict dialog
NextResolve ==
    \/ WallTick
    \/ GistDeleted
    \/ ResolveConflict

SpecResolve == InitDesk /\ [][NextResolve]_vars

NextDesk ==
    \/ WallTick
    \/ GistDeleted
    \/ PushAllAgents
    \/ PullAgents

SpecDesk == InitDesk /\ [][NextDesk]_vars

-----------------------------------------------------------------------------
(* Properties *)

IsPush == sres.op \in {"PushAllAgentsToGist", "PushToGist"}

LocalVersion == getLatestLocalVersion(Stor)
RemoteVersion == GetLatestVersion(gistSync, remote, clock)

HashesDiffer(l, r) == computeHash(l.version.Content) # computeHash(r.version.Content)

\* C2: DetectPushConflict returns HasConflict=true, of type push_conflict, if
\* and only if a latest local version exists, a remote version exists and the
\* SHA-256 of the local content differs from that of the remote content; every
\* other call that returns a result returns HasConflict=false.
C2_PushConflictIffHashesDiffer ==
    sres.op = "DetectPushConflict" =>
        LET l == LocalVersion
            r == RemoteVersion
        IN  /\ sres.conflict = "conflict"
                   <=> (~sres.err /\ l.exists /\ r.ok /\ HashesDiffer(l, r))
            /\ sres.conflict = "conflict" => sres.ctype = "push_conflict"
            /\ ~sres.err => sres.conflict \in {"conflict", "none"}

C2_Witness ==
    /\ sres.op = "DetectPushConflict"
    /\ LocalVersion.exists /\ RemoteVersion.ok
    /\ HashesDiffer(LocalVersion, RemoteVersion)
    /\ sres.conflict = "conflict" /\ sres.ctype = "push_conflict"

\* C3: DetectPullConflict returns HasConflict=true, of type pull_conflict, if
\* and only if a local and a remote version both exist, the local timestamp is
\* strictly after the remote one and the content hashes differ; equal
\* timestamps or equal hashes never give a conflict.
C3_PullConflictIffNewerAndDiffer ==
    sres.op = "DetectPullConflict" =>
        LET l == LocalVersion
            r == RemoteVersion
        IN  /\ sres.conflict = "conflict"
                   <=> /\ ~sres.err
                       /\ l.exists /\ r.ok
                       /\ l.version.Timestamp > r.version.Timestamp
                       /\ HashesDiffer(l, r)
            /\ sres.conflict = "conflict" => sres.ctype = "pull_conflict"
            /\ ~sres.err => sres.conflict \in {"conflict", "none"}

C3_Witness ==
    /\ sres.op = "DetectPullConflict"
    /\ LocalVersion.exists /\ RemoteVersion.ok
    /\ LocalVersion.version.Timestamp > RemoteVersion.version.Timestamp
    /\ HashesDiffer(LocalVersion, RemoteVersion)
    /\ sres.conflict = "conflict" /\ sres.ctype = "pull_conflict"

NoRemoteState == ~remote.exists \/ ~remote.hasFile

\* the call found the sync configured: it returned a result, or went as far as
\* asking for the Gist
PastConfiguration == ~sres.err \/ sres.http # NoRequest

\* C4: when no remote state is present (the Gist is missing or holds no
\* mcp-config.json), both DetectPushConflict and DetectPullConflict report
\* HasConflict=false, for any local version history.
C4_BootstrapNoConflict ==
    (/\ sres.op \in {"DetectPushConflict", "DetectPullConflict"}
     /\ NoRemoteState
     /\ PastConfiguration)
        => (~sres.err /\ sres.conflict = "none")

IsPackageRunner(command) == HasPrefix(command, StrNpxSp) \/ command = StrNpx

\* C5: on Windows, unwrapping what WrapNpxCommand made of a package-runner
\* command (combined "npx ..." or split "npx", any args) gives back exactly
\* the original command and args.
C5_RoundTrip ==
    (wphase = "unwrapped" /\ IsWindows /\ IsPackageRunner(wcommand))
        => (outCmd = wcommand /\ outArgs = wargs)

\* The split form does come back whole.
C5_SplitRoundTrip ==
    (wphase = "unwrapped" /\ IsWindows /\ wcommand = StrNpx)
        => (outCmd = wcommand /\ outArgs = wargs)

EnabledIn(st) == st.up /\ st.kr # <<>>

\* C6: with encryption enabled and the same stored key at both calls,
\* Decrypt(Encrypt(p)) succeeds and equals p, for every plaintext p, the empty
\* one included; and what Encrypt(p) returns is never p.
C6_EncryptDecryptRoundTrip ==
    /\ (res.op = "Decrypt" /\ res.chained /\ EnabledIn(res.st) /\ res.st.kr = res.gSt.kr)
          => (res.ok /\ res.out = res.gPlain)
    /\ (res.op = "Encrypt" /\ res.ok) => res.out # res.in

C6_Witness ==
    /\ res.op = "Decrypt" /\ res.chained
    /\ EnabledIn(res.st) /\ res.st.kr = res.gSt.kr
    /\ res.gPlain = <<>>
    /\ res.ok /\ res.out = <<>>

TaggedTwice(data) == isEncrypted(data) /\ isEncrypted(TrimPrefix(data, StrENC))

\* C7: in every encryption state encryptIfNeeded(encryptIfNeeded(x)) equals
\* encryptIfNeeded(x); a blob that carries "ENC:" comes back unchanged, and
\* encryptIfNeeded never makes a blob that carries the tag twice.
C7_TagIdempotent ==
    res.op = "encryptIfNeeded" =>
        /\ (res.chained /\ res.st = res.gSt) => (res.ok /\ res.out = res.in)
        /\ isEncrypted(res.in) => (res.ok /\ res.out = res.in)
        /\ (res.ok /\ ~TaggedTwice(res.in)) => ~TaggedTwice(res.out)

C7_Witness ==
    /\ res.op = "encryptIfNeeded" /\ res.chained /\ res.st = res.gSt
    /\ ~isEncrypted(res.gPlain)
    /\ isEncrypted(res.in)
    /\ res.ok /\ res.out = res.in

\* C8: IsEnabled() is false before the first Enable(), true after an Enable()
\* (the keyring answering), false after a Disable(); and from a Disable() to
\* the next Enable() every Encrypt(p) is an error with no output.
C8_KeyLifecycle ==
    /\ lifecycle = "never" => ~IsEnabled(keyringKey)
    /\ (lifecycle = "enabled" /\ keyringUp) => IsEnabled(keyringKey)
    /\ lifecycle = "disabled" =>
          /\ ~IsEnabled(keyringKey)
          /\ res.op = "Encrypt" => (~res.ok /\ res.out = <<>>)

\* (on Linux a Disable() that returns nil has deleted a key an Enable() stored)
C8_Witness ==
    /\ goos = "linux"
    /\ lifecycle = "disabled"
    /\ keyringUp
    /\ res.op = "Encrypt" /\ ~res.ok

\* C9: after EnableEncryption(pw) whose MigrateFromPassword(pw) succeeded, a
\* tagged blob written under generation 1 with pw before the migration is
\* still decrypted to its plaintext by decryptIfNeeded.
C9_LegacyStillReadable ==
    (/\ res.op = "decryptIfNeeded"
     /\ migratedPw # <<>>
     /\ file.gen = "gen1" /\ file.preMig
     /\ file.key = NewSecurityManager(migratedPw)
     /\ res.in = file.data)
        => (res.ok /\ res.out = file.plain)

HoldsKeyring(st) == cryptoAvail /\ EnabledIn(st)

HoldsPassword(st) == st.sm # <<>> /\ st.old

KeyringOpens(st, data) ==
    /\ HoldsKeyring(st)
    /\ decryptData(st.kr, TrimPrefix(data, StrENC)).ok

PasswordOpens(st, data) ==
    /\ HoldsPassword(st)
    /\ SecurityManagerDecrypt(st.sm, TrimPrefix(data, StrENC)).ok

\* C10: decryptIfNeeded fails on a tagged blob only when no generation the
\* service holds opens it; when the keyring key does not open it and the
\* password-derived key does, the password-derived plaintext is returned; an
\* untagged blob is returned unchanged.
C10_TriesEveryGeneration ==
    res.op = "decryptIfNeeded" =>
        /\ ~isEncrypted(res.in) => (res.ok /\ res.out = res.in)
        /\ (isEncrypted(res.in) /\ ~res.ok)
              => (~KeyringOpens(res.st, res.in) /\ ~PasswordOpens(res.st, res.in))
        /\ (isEncrypted(res.in) /\ ~KeyringOpens(res.st, res.in)
                                /\ PasswordOpens(res.st, res.in))
              => (/\ res.ok
                  /\ res.out = SecurityManagerDecrypt(res.st.sm,
                                                      TrimPrefix(res.in, StrENC)).out)

C10_Witness ==
    /\ res.op = "decryptIfNeeded"
    /\ isEncrypted(res.in)
    /\ HoldsKeyring(res.st) /\ ~KeyringOpens(res.st, res.in)
    /\ PasswordOpens(res.st, res.in)
    /\ res.ok /\ res.out = file.plain


-----------------------------------------------------------------------------
(* Properties of the version store under push *)

\* C13: after two consecutive successful pushes with no change to any
\* tool's config in between, the remote version's hash (SHA-256 of the
\* decrypted remote content, as GetLatestVersion computes it) is the same
\* after the second push as after the first.
C13_PushIdempotent ==
    [][(/\ sres'.op = "PushAllAgentsToGist" /\ ~sres'.err
        /\ pushedHash # <<>>
        /\ agentsCfg' = agentsCfg)
          => pushedHash' = pushedHash]_vars

\* GetConfigVersions(limit) with a limit no smaller than the directory
AllConfigVersions(st) == ListConfigVersions(st, Len(st.vs))

\* C14: every ConfigVersion recorded by push or pull and returned by the
\* version API (ListConfigVersions / GetConfigVersions,
\* getLatestLocalVersion, GetLatestVersion) carries a Hash equal to SHA-256
\* of its Content.
C14_VersionsCarryHash ==
    /\ \A i \in 1..Len(AllConfigVersions(Stor)) :
          AllConfigVersions(Stor)[i].Hash = computeHash(AllConfigVersions(Stor)[i].Content)
    /\ LocalVersion.exists =>
          LocalVersion.version.Hash = computeHash(LocalVersion.version.Content)
    /\ RemoteVersion.ok =>
          RemoteVersion.version.Hash = computeHash(RemoteVersion.version.Content)

\* a call that saved a version file: the versions directory changed
VersionSaved == versions' # versions

\* C15: the version log is append-only: every successful SaveConfigVersion
\* adds exactly one entry and leaves all earlier entries intact, two saves
\* within the same clock second included, ListConfigVersions giving the
\* entries newest first.
C15_AppendOnly ==
    [][VersionSaved =>
          /\ Len(AllConfigVersions(Stor')) = Len(AllConfigVersions(Stor)) + 1
          /\ Tail(AllConfigVersions(Stor')) = AllConfigVersions(Stor)]_vars

\* a push that ended in a configuration error: it failed before any request
\* was sent (no token or Gist id in the sync config, or no encryption key)
PushConfigError ==
    /\ sres'.op \in {"PushAllAgentsToGist", "PushToGist"}
    /\ sres'.err /\ sres'.http = NoRequest

\* C19: a sync operation that fails with a configuration error (missing
\* token or Gist id, missing encryption key) never partially applies: it
\* appends no ConfigVersion and leaves SyncConfig unchanged.
C19_NoPartialApply ==
    [][PushConfigError => (versions' = versions /\ configFile' = configFile)]_vars

-----------------------------------------------------------------------------
(* Properties of the converter *)

Converted == cphase = "done" /\ conversion.op = "ConvertAgentConfig"

SourceFormat == FormatOf(srcAgent)
TargetFormat == FormatOf(tgtAgent)

BothAgentsDefined ==
    /\ ~GetAgentDefinition(configLoader, srcAgent).nil
    /\ ~GetAgentDefinition(configLoader, tgtAgent).nil

DirectRule == GetTransformRule(configLoader, SourceFormat, TargetFormat)

\* a call that applies a direct rule: two known agents of differing formats
\* with a rule loaded under source_to_target
DirectCase ==
    /\ Converted
    /\ BothAgentsDefined
    /\ SourceFormat # TargetFormat
    /\ ~DirectRule.nil

\* the fields the statement gives an entry: the source fields in keep when
\* keep is non-empty, otherwise all source fields but the ones in remove,
\* overlaid with add
StatedFields(serverMap, transform) ==
    [f \in (IF transform.KeepFields # {}
            THEN DOMAIN serverMap \cap transform.KeepFields
            ELSE DOMAIN serverMap \ transform.RemoveFields)
           \cup DOMAIN transform.AddFields |->
        IF f \in DOMAIN transform.AddFields
        THEN transform.AddFields[f]
        ELSE serverMap[f]]

\* C11: applying a direct rule, the result has the input's server names; a
\* map entry's fields are the source fields in fieldsToKeep when that is
\* non-empty, otherwise all source fields except those in fieldsToRemove,
\* overlaid with fieldsToAdd whose values win; an entry that is not a map
\* passes through unchanged under its key.
C11_DirectTransform ==
    DirectCase =>
        /\ conversion.Success /\ ~conversion.err
        /\ ~conversion.ConvertedConfig.nil
        /\ DOMAIN conversion.ConvertedConfig.servers = DOMAIN srcConfig
        /\ \A name \in DOMAIN srcConfig :
              conversion.ConvertedConfig.servers[name] =
                  IF srcConfig[name].isMap
                  THEN MapEntry(StatedFields(srcConfig[name].fields, DirectRule.rule))
                  ELSE srcConfig[name]

ToStandardRule == GetTransformRule(configLoader, SourceFormat, "standard")
FromStandardRule == GetTransformRule(configLoader, "standard", TargetFormat)

\* a call that finds no direct rule: two known agents of differing formats
NoDirectCase ==
    /\ Converted
    /\ BothAgentsDefined
    /\ SourceFormat # TargetFormat
    /\ DirectRule.nil

ThroughStandard ==
    /\ SourceFormat # "standard" /\ TargetFormat # "standard"
    /\ ~ToStandardRule.nil /\ ~FromStandardRule.nil

\* C12: with differing formats and no direct rule, if neither format is
\* "standard" and both legs are loaded the result is the source_to_standard
\* rule applied and then the standard_to_target rule; if a leg's rule is
\* missing or one endpoint is "standard", the call returns an error with
\* Success false and no converted config.
C12_ThroughStandard ==
    NoDirectCase =>
        IF ThroughStandard
        THEN /\ conversion.Success /\ ~conversion.err
             /\ conversion.ConvertedConfig =
                    ConfigOf(applyTransform(
                                 applyTransform(srcConfig, ToStandardRule.rule),
                                 FromStandardRule.rule))
        ELSE /\ ~conversion.Success /\ conversion.err
             /\ conversion.ConvertedConfig = NilConfig

\* a conversion through the standard format in which both legs count: the
\* result is neither the source config nor either leg applied alone
C12_Witness ==
    /\ NoDirectCase /\ ThroughStandard
    /\ conversion.Success
    /\ conversion.ConvertedConfig.servers # srcConfig
    /\ conversion.ConvertedConfig.servers
           # applyTransform(srcConfig, ToStandardRule.rule)
    /\ conversion.ConvertedConfig.servers
           # applyTransform(srcConfig, FromStandardRule.rule)
    /\ \E name \in DOMAIN srcConfig : ~srcConfig[name].isMap


-----------------------------------------------------------------------------
(* Properties of push and pull over the tools *)

Pushed == ret.op = "PushAllAgentsToGist"

\* the sync config a handler that has just ended was given
GivenConfig == LoadSyncConfigDoc(syncDoc, wall)

\* the detected tools whose config can be read
ReadableTools == { id \in KnownTools : toolFiles[id] \notin {"absent", "broken"} }

UnreadableTools == { id \in KnownTools : toolFiles[id] = "broken" }

\* the aggregate of exactly the readable tools, by tool id
ReadableAggregate == [id \in ReadableTools |-> ObjectEntry(toolFiles[id])]

\* what makes an upload fail: no encryption key, or no Gist behind the id
UploadRefused ==
    \/ ~service.encryptionEnabled \/ service.securityMgr = <<>>
    \/ ~gistDoc.exists

\* C16: the aggregate PushAllAgentsToGist uploads holds, by tool id, exactly
\* the detected tools whose config read succeeded; a read failure of any
\* subset of the tools, all of them included, neither makes the push fail
\* nor stops the remaining tools from being collected.
C16_PushIsolation ==
    (Pushed /\ ~NotConfigured(GivenConfig)) =>
        /\ ret.err <=> UploadRefused
        /\ ~ret.panicked
        /\ versionDir[Unix(wall)].Content = ReadableAggregate
        /\ ~ret.err =>
              /\ gistDoc.sealed
              /\ gistDoc.content.doc.agents = ReadableAggregate

\* a push that went through with the first tool's config unreadable and the
\* second one's uploaded
C16_Witness ==
    /\ Pushed /\ ~ret.err
    /\ toolFiles["claude"] = "broken"
    /\ toolFiles["cursor"] = "A"
    /\ DOMAIN gistDoc.content.doc.agents = {"cursor"}

\* the step is a PushAllAgentsToGist that got as far as the upload
PushStep ==
    /\ ret'.op = "PushAllAgentsToGist"
    /\ ~NotConfigured(GivenConfig)

\* C17: if the upload succeeds, push records a SyncLog with action push and
\* status success and sets lastSyncStatus to "success" with a new
\* lastSyncTime; if it fails, push returns the error, records a SyncLog with
\* status failed and no success log, and leaves lastSyncTime and
\* lastSyncStatus as they were.
C17_PushRecorded ==
    [][PushStep =>
         IF ~ret'.err
         THEN /\ logDir' = SaveSyncLog(logDir, SyncLog(wall, "push", "success"), wall)
              /\ syncDoc'.exists
              /\ syncDoc'.doc.LastSyncStatus = "success"
              /\ syncDoc'.doc.LastSyncTime = wall
         ELSE /\ logDir' = SaveSyncLog(logDir, SyncLog(wall, "push", "failed"), wall)
              /\ syncDoc' = syncDoc]_vars

\* a push whose upload failed after an earlier one had succeeded: the log of
\* this second says failed, the sync config still tells of the earlier one
C17_Witness ==
    /\ Pushed /\ ret.err
    /\ ~NotConfigured(GivenConfig)
    /\ logDir[Unix(wall)] = SyncLog(wall, "push", "failed")
    /\ syncDoc.doc.LastSyncStatus = "success"
    /\ syncDoc.doc.LastSyncTime < wall

\* a pull that has ended after downloading an aggregate
PullDownloaded == ret.op = "PullFromGist" /\ (~ret.err \/ ret.panicked)

\* the downloaded entries that can be applied: an object, for a tool the
\* registry defines whose config file is there and parses
ApplicableEntries ==
    { id \in DOMAIN Downloaded :
        /\ Downloaded[id].isMap
        /\ id \in KnownTools
        /\ toolFiles[id] \notin {"absent", "broken"} }

\* C18: for every entry of a downloaded aggregate, a failure to apply it
\* (unknown tool id, missing or unparseable local config file, or an entry
\* that is not a JSON object) does not keep the remaining entries from being
\* applied, and the pull still completes and records its SyncLog.
C18_PullIsolation ==
    PullDownloaded =>
        /\ ~ret.panicked
        /\ ret.applied = ApplicableEntries
        /\ Unix(wall) \in DOMAIN logDir
        /\ logDir[Unix(wall)] = SyncLog(wall, "pull", "success")

-----------------------------------------------------------------------------
(* InitializeGistSync *)

Initialized == ret.op = "InitializeGistSync"

\* the call's requests and writes from the i-th on
StepsFrom(i) == { bind.steps[j] : j \in i..Len(bind.steps) }

ValidatedFirst ==
    bind.steps # <<>> /\ bind.steps[1] = Step("GET /user", TRUE)

GistPosted == \E st \in StepsFrom(1) : st.what = "POST /gists"

ConfigWriteTried == \E st \in StepsFrom(1) : st.what = "sync_config.json"

\* C20: a call of InitializeGistSync creates no Gist and writes no sync
\* config unless the validation of the token succeeded first, the request
\* for it being the first thing the call does; given no Gist id, a call that
\* succeeds has created one Gist, returns the id GitHub gave it and has
\* saved that id with the token; given a Gist id, a call creates none, and
\* one that succeeds returns the given id and has saved it with the token.
C20_InitializeOrdering ==
    [][Initialized' =>
         /\ (~ValidatedFirst' =>
               /\ ~GistPosted' /\ ~ConfigWriteTried'
               /\ gistDoc' = gistDoc /\ syncDoc' = syncDoc /\ service' = service
               /\ ret'.err)
         /\ (GistPosted' \/ ConfigWriteTried' =>
               \A st \in { bind'.steps[j] : j \in 2..Len(bind'.steps) } :
                   st.what # "GET /user")
         /\ (bind'.gistID = <<>> /\ ~ret'.err =>
               /\ bind'.steps = <<Step("GET /user", TRUE), Step("POST /gists", TRUE),
                                  Step("sync_config.json", TRUE)>>
               /\ gistDoc' = CreatedGist(wall)
               /\ bind'.id = StrGistID
               /\ syncDoc'.exists
               /\ syncDoc'.doc.GistID = bind'.id
               /\ syncDoc'.doc.GitHubToken = bind'.token
               /\ service'.gistID = bind'.id)
         /\ (bind'.gistID # <<>> =>
               /\ ~GistPosted'
               /\ gistDoc' = gistDoc
               /\ (~ret'.err =>
                     /\ bind'.id = bind'.gistID
                     /\ syncDoc'.exists
                     /\ syncDoc'.doc.GistID = bind'.gistID
                     /\ syncDoc'.doc.GitHubToken = bind'.token
                     /\ service'.gistID = bind'.gistID))
    ]_vars

\* a call given no Gist id has created one and saved its id
C20_Witness ==
    /\ Initialized /\ ~ret.err
    /\ bind.gistID = <<>> /\ bind.id = StrGistID
    /\ GistPosted
    /\ syncDoc.exists /\ syncDoc.doc.GistID = StrGistID


-----------------------------------------------------------------------------
(* Conflicts after a push *)

PushedThenAsked ==
    /\ sres.op = "PushAllAgentsToGist" /\ ~sres.err
    /\ sres'.op = "DetectPushConflict"

\* C23: DetectPushConflict called right after a successful
\* PushAllAgentsToGist, nothing having changed in between, reports no
\* conflict.
C23_NoConflictAfterPush ==
    [][PushedThenAsked => (~sres'.err /\ sres'.conflict = "none")]_vars

-----------------------------------------------------------------------------
(* SetEncryption that fails *)

\* C28: a SetEncryption call that returns an error leaves the service's
\* encryptionEnabled and securityMgr as they were, so a service whose
\* encryption was switched off stays one whose pushes are refused.
C28_FailedSetEncryptionKeepsState ==
    [][(gistSync.set /\ sres'.op = "SetupGistEncryption" /\ sres'.err)
          => (/\ gistSync'.encryptionEnabled = gistSync.encryptionEnabled
              /\ gistSync'.securityMgr = gistSync.securityMgr)]_vars

-----------------------------------------------------------------------------
(* The local side of a comparison *)

\* C24: the version getLatestLocalVersion gives DetectPushConflict and
\* DetectPullConflict as the local side has Source "local", whatever pushes
\* and pulls came before.
C24_LocalSideIsLocal ==
    LatestVersionIn(versionDir).exists
        => LatestVersionIn(versionDir).version.Source = "local"

-----------------------------------------------------------------------------
(* ResolveConflict *)

Resolved == ret.op = "ResolveConflict"

\* the step leaves what a handler that ended in o leaves
Leaves(o) ==
    /\ Dev' = o.dev
    /\ ret'.err = o.err
    /\ ret'.panicked = o.panicked
    /\ ret'.applied = o.applied

\* C22: ResolveConflict with keep_local leaves the state and the result
\* PushAllAgentsToGist would; with use_remote and with merge alike it leaves
\* what PullFromGist would; with any other resolution it returns an error
\* and changes nothing; and this whatever the conflictType.
C22_ResolveDelegates ==
    [][Resolved' =>
         /\ (resolving'.resolution = "keep_local" =>
               Leaves(AppPushAllAgentsToGist(Dev, wall)))
         /\ (resolving'.resolution \in {"use_remote", "merge"} =>
               \E order \in Orders(DOMAIN Downloaded) :
                   Leaves(AppPullFromGist(Dev, wall, order)))
         /\ (resolving'.resolution \notin {"keep_local", "use_remote", "merge"} =>
               ret'.err /\ Dev' = Dev)
    ]_vars

\* a conflict resolved with merge has pulled and applied an entry
C22_Witness ==
    /\ Resolved /\ ~ret.err
    /\ resolving.resolution = "merge"
    /\ ret.applied # {}

-----------------------------------------------------------------------------
(* Local encryption switched off and on *)

\* C26: after DisableEncryption has returned, a file the service saved under
\* the keyring key while encryption was enabled is still read back to the
\* document that was saved.
C26_DisableLosesNoData ==
    (/\ res.op = "decryptIfNeeded" /\ res.in = file.data
     /\ file.gen = "gen2"
     /\ lifecycle = "disabled" /\ keyringUp)
        => (res.ok /\ res.out = file.plain)

\* C27: when EnableEncryption(password) has returned, IsEncryptionEnabled()
\* is true, and the save that follows it writes a file that carries the tag
\* and is not the document itself.
C27_EnableMeansEncrypted ==
    [][/\ (res'.op = "EnableEncryption" /\ keyringUp') =>
              IsEncryptionEnabled(keyringKey', oldEnabled')
       /\ (res.op = "EnableEncryption" /\ keyringUp
             /\ res'.op = "SaveConfigVersion" /\ res'.ok) =>
              (isEncrypted(file'.data) /\ file'.data # file'.plain)
    ]_vars

-----------------------------------------------------------------------------
(* The two rule engines *)

\* C29: for a rule and a server map, what ConfigConverter.applyTransform
\* gives ConvertAgentConfig is what ConfigLoader.ApplyTransformRule gives
\* SyncConfigBetweenAgents for the same rule and map, whichever of the
\* loader's two definitions is taken.
C29_EnginesAgree ==
    DirectCase =>
        \/ conversion.ConvertedConfig.servers =
               ApplyTransformRule(srcConfig, DirectRule.rule)
        \/ conversion.ConvertedConfig.servers =
               ApplyTransformRuleOnce(srcConfig, DirectRule.rule)

-----------------------------------------------------------------------------
(* One tool's config file and the calls that write its server map.  The     *)
(* file is taken by its top-level keys: form tells what the file is         *)
(* ("absent"; "json"; "jsonc", JSON with whole-line // comments; "toml";    *)
(* "text", bytes that parse as neither), doc what each top-level key holds. *)
(* A value is a map of servers or something else; a server's entry is a     *)
(* map of fields or something else.                                         *)

AgentKeys ==
    [claude |-> "mcpServers", zed |-> "context_servers", codex |-> "mcp_servers"]

GetConfigKey(agentID) ==
    IF agentID \in DOMAIN AgentKeys THEN AgentKeys[agentID] ELSE "mcpServers"

TopMap(servers) == [isMap |-> TRUE, servers |-> servers, raw |-> ""]

TopRaw(v) == [isMap |-> FALSE, servers |-> NoServers, raw |-> v]

Put(f, k, v) == [x \in DOMAIN f \cup {k} |-> IF x = k THEN v ELSE f[x]]

Only(f, keys) == [x \in DOMAIN f \cap keys |-> f[x]]

Without(f, k) == [x \in DOMAIN f \ {k} |-> f[x]]

\* the entries of a map of servers that are maps themselves
MapsIn(servers) == { n \in DOMAIN servers : servers[n].isMap }

ServerFields == {"command", "args", "env"}

convertZedToStandard(data) ==
    IF ~data.isMap THEN data
    ELSE TopMap([n \in MapsIn(data.servers) |->
                    MapEntry(Only(data.servers[n].fields, ServerFields))])

convertStandardToZed(data) ==
    IF ~data.isMap THEN data
    ELSE TopMap([n \in MapsIn(data.servers) |->
                    MapEntry(Put(Put(Only(data.servers[n].fields, ServerFields),
                                     "source", "custom"),
                                 "enabled", "true"))])

\* os.ReadFile, the lines that start with // dropped, json.Unmarshal
ReadStripped(f) ==
    IF f.form \in {"json", "jsonc"}
    THEN [err |-> FALSE, config |-> f.doc]
    ELSE [err |-> TRUE, config |-> NoDoc]

Called(err, f) == [err |-> err, file |-> f]

\* AppService.GetAgentMCPConfig on the file f -> [err, entry]
GetAgentMCPConfigFile(f, agentID) ==
    IF agentID \notin DOMAIN AgentKeys \/ ReadStripped(f).err
    THEN [err |-> TRUE, entry |-> NoDoc]
    ELSE LET config == ReadStripped(f).config
             keyName == GetConfigKey(agentID)
         IN  [err |-> FALSE,
              entry |-> [k \in {keyName} |->
                            IF keyName \in DOMAIN config THEN config[keyName]
                            ELSE TopMap(NoServers)]]

\* AppService.SaveAgentMCPConfig on the file f -> [err, file]
SaveAgentMCPConfigFile(f, agentID, mcpServersConfig) ==
    IF agentID \notin DOMAIN AgentKeys \/ ReadStripped(f).err
    THEN Called(TRUE, f)
    ELSE LET fullConfig == ReadStripped(f).config
             targetKeyName == GetConfigKey(agentID)
             sourceFormat == FormatOf(agentID)
             sourceKeyName ==
                 IF "context_servers" \in DOMAIN mcpServersConfig THEN "context_servers"
                 ELSE IF "mcpServers" \in DOMAIN mcpServersConfig THEN "mcpServers"
                 ELSE ""
             serversData == mcpServersConfig[sourceKeyName]
             transformed ==
                 IF sourceKeyName = "context_servers" /\ targetKeyName = "mcpServers"
                 THEN convertZedToStandard(serversData)
                 ELSE IF sourceKeyName = "mcpServers" /\ targetKeyName = "context_servers"
                 THEN convertStandardToZed(serversData)
                 ELSE serversData
             forTarget ==
                 IF sourceFormat = "zed" /\ targetKeyName = "context_servers"
                 THEN convertStandardToZed(transformed)
                 ELSE transformed
         IN  Called(FALSE,
                    ToolFile("json",
                             IF sourceKeyName # ""
                             THEN Put(fullConfig, targetKeyName, forTarget)
                             ELSE fullConfig))

(* ConfigManager.WriteAgentMCPConfig *)

MCPServer(name, command, args, enabled) ==
    [Name |-> name, Command |-> command, Args |-> args, Env |-> NoFields,
     Enabled |-> enabled]

IsNpxCommand(command, args) ==
    \/ HasPrefix(command, StrNpxSp) \/ command = StrNpx
    \/ /\ command = StrCmd /\ Len(args) >= 2
       /\ args[1] = StrSlashC
       /\ (HasPrefix(args[2], StrNpxSp) \/ args[2] = StrNpx)

IsAlreadyWrapped(command, args) == command = StrCmd /\ Len(args) >= 2

ShouldWrapForWindows(command, args) ==
    IsWindows /\ IsNpxCommand(command, args) /\ ~IsAlreadyWrapped(command, args)

ApplyWindowsTransformation(servers, wrap) ==
    IF ~IsWindows THEN servers
    ELSE [i \in DOMAIN servers |->
            IF wrap /\ ShouldWrapForWindows(servers[i].Command, servers[i].Args)
            THEN [servers[i] EXCEPT
                    !.Command = WrapNpxCommand(servers[i].Command, servers[i].Args)[1],
                    !.Args = WrapNpxCommand(servers[i].Command, servers[i].Args)[2]]
            ELSE IF ~wrap /\ IsAlreadyWrapped(servers[i].Command, servers[i].Args)
            THEN [servers[i] EXCEPT
                    !.Command = UnwrapNpxCommand(servers[i].Command, servers[i].Args)[1],
                    !.Args = UnwrapNpxCommand(servers[i].Command, servers[i].Args)[2]]
            ELSE servers[i]]

\* the file as the call reads it: what does not parse counts as empty
ReadExisting(f) == IF f.form = "json" THEN f.doc ELSE NoDoc

\* the entry written for a server: command, args and env from the server,
\* every other field from the entry the map had under its name
ServerConfig(existingMcpServers, server) ==
    LET serverConfig ==
            [k \in ServerFields |->
                IF k = "command" THEN server.Command
                ELSE IF k = "args" THEN server.Args ELSE server.Env]
        kept ==
            IF server.Name \in MapsIn(existingMcpServers)
            THEN existingMcpServers[server.Name].fields
            ELSE NoFields
    IN  MapEntry([k \in DOMAIN kept \cup ServerFields |->
                    IF k \in ServerFields THEN serverConfig[k] ELSE kept[k]])

RECURSIVE OverrideByName(_, _, _)
\* the servers from the i-th on, laid over the map in their order
OverrideByName(existingMcpServers, servers, i) ==
    IF i > Len(servers) THEN existingMcpServers
    ELSE OverrideByName(
             IF ~servers[i].Enabled
             THEN Without(existingMcpServers, servers[i].Name)
             ELSE Put(existingMcpServers, servers[i].Name,
                      ServerConfig(existingMcpServers, servers[i])),
             servers, i + 1)

\* a version of the update in which the map is built from the servers alone
ReplaceServers(config, agentID, servers) ==
    Put(config, GetConfigKey(agentID),
        TopMap(OverrideByName(NoServers,
                              IF IsWindows THEN ApplyWindowsTransformation(servers, TRUE)
                              ELSE servers, 1)))

\* the config read, with the servers merged into the map under the tool's key
MergeServers(config, agentID, servers) ==
    LET configKey == GetConfigKey(agentID)
        existingMcpServers ==
            IF configKey \in DOMAIN config /\ config[configKey].isMap
            THEN config[configKey].servers ELSE NoServers
        transformedServers ==
            IF IsWindows THEN ApplyWindowsTransformation(servers, TRUE) ELSE servers
    IN  Put(config, configKey,
            TopMap(OverrideByName(existingMcpServers, transformedServers, 1)))

\* WriteAgentMCPConfig in one piece -> [err, file]
WriteAgentMCPConfig(f, agentID, servers) ==
    IF agentID \notin DOMAIN AgentKeys THEN Called(TRUE, f)
    ELSE Called(FALSE, ToolFile("json", MergeServers(ReadExisting(f), agentID, servers)))

(* TOMLAdapter *)

\* the scalar keys of CodexConfig; a file here has no [model_providers] table
CodexScalars ==
    {"model_provider", "model", "model_reasoning_effort", "disable_response_storage"}

\* toml.Unmarshal into a CodexConfig: the keys the struct has no field for
\* are not kept
ReadCodexConfig(f) ==
    IF f.form = "toml"
    THEN [err |-> FALSE, config |-> Only(f.doc, CodexScalars \cup {"mcp_servers"})]
    ELSE [err |-> TRUE, config |-> NoDoc]

CodexServer(serverMap) ==
    [k \in {"command"}
           \cup { x \in {"args"} \cap DOMAIN serverMap : Len(serverMap[x]) > 0 }
           \cup { x \in {"env"} \cap DOMAIN serverMap : DOMAIN serverMap[x] # {} }
           \cup { x \in {"cwd"} \cap DOMAIN serverMap : serverMap[x] # "" } |->
        IF k = "command" /\ k \notin DOMAIN serverMap THEN <<>> ELSE serverMap[k]]

StandardToCodex(standardServers) ==
    [n \in { m \in MapsIn(standardServers) :
                ~ /\ "type" \in DOMAIN standardServers[m].fields
                  /\ standardServers[m].fields["type"] \in {"http", "sse"} } |->
        MapEntry(CodexServer(standardServers[n].fields))]

\* the file WriteCodexConfig makes of a config
WriteCodexConfig(config) ==
    ToolFile("toml",
             [k \in { x \in DOMAIN config :
                        IF x = "mcp_servers" THEN DOMAIN config[x].servers # {}
                        ELSE /\ config[x].raw # ""
                             /\ ~(x = "disable_response_storage" /\ config[x].raw = "false") }
                 |-> config[k]])

\* SetMCPServersFromStandard on the file f -> [err, file]
SetMCPServersFromStandard(f, standardServers) ==
    LET config == IF ReadCodexConfig(f).err THEN NoDoc ELSE ReadCodexConfig(f).config
    IN  Called(FALSE,
               WriteCodexConfig(Put(config, "mcp_servers",
                                    TopMap(StandardToCodex(standardServers)))))

(* The files a tool may have, and what the calls are given *)

\* a server's fields as a tool's file may hold them: a command, Zed's
\* enabled flag, a transport type, each there or not
EntryFields ==
    { [k \in (IF c THEN {"command"} ELSE {})
             \cup (IF e # "" THEN {"enabled"} ELSE {})
             \cup (IF t THEN {"type"} ELSE {}) |->
          IF k = "command" THEN StrNpx ELSE IF k = "enabled" THEN e ELSE "http"] :
        c \in BOOLEAN, e \in {"", "true", "false"}, t \in BOOLEAN }

FileEntries == { MapEntry(m) : m \in EntryFields } \cup {RawEntry("text")}

\* the maps of servers: none, or a server "a"
FileServers == {NoServers} \cup { [n \in {"a"} |-> e] : e \in FileEntries }

ServerValues == { TopMap(m) : m \in FileServers } \cup {TopRaw("text")}

\* the documents with the servers under key, or without the key, and the
\* other keys each there or not
DocsOver(key, others) ==
    { [k \in d \cup DOMAIN o |-> IF k = key THEN v ELSE o[k]] :
        d \in SUBSET {key}, v \in ServerValues, o \in others }

JSONDocs(key) ==
    DocsOver(key, {NoDoc, [k \in {"theme"} |-> TopRaw("dark")]})

TOMLDocs ==
    DocsOver("mcp_servers",
             { [k \in d |-> IF k = "model" THEN TopRaw("o3") ELSE TopRaw("never")] :
                 d \in SUBSET {"model", "approval_policy"} })

FilesOf(agentID) ==
    {ToolFile("absent", NoDoc), ToolFile("text", NoDoc)}
    \cup IF FormatOf(agentID) = "codex_toml"
         THEN { ToolFile("toml", d) : d \in TOMLDocs }
         ELSE { ToolFile(form, d) : form \in {"json", "jsonc"},
                                    d \in JSONDocs(GetConfigKey(agentID)) }

\* what SaveAgentMCPConfig may be given: servers under one of the two key
\* names, or neither
SaveInputs ==
    {NoDoc} \cup { [k \in {key} |-> v] :
                     key \in {"mcpServers", "context_servers"}, v \in ServerValues }

\* what WriteAgentMCPConfig may be given: no server, or a server "a"
ServerLists ==
    {<<>>} \cup { <<MCPServer("a", command, <<>>, enabled)>> :
                    command \in {StrNpx, StrCmd}, enabled \in BOOLEAN }

Call(op, err, agentID) == [op |-> op, err |-> err, agentID |-> agentID]

InitFiles ==
    /\ DeskIdle
    /\ ConvIdle
    /\ WrapIdle
    /\ CryptoIdle
    /\ SyncIdle
    /\ goos \in {"linux", "windows"}
    /\ tool \in DOMAIN AgentKeys
    /\ cfgFile \in FilesOf(tool)
    /\ cfgCall = NoCall
    /\ pushed = NoEntry
    /\ writers = NoWriters
    /\ guard = FALSE

\* a call ends: what it returned, and the file it left
Returns(op, agentID, o) ==
    /\ cfgCall' = Call(op, o.err, agentID)
    /\ cfgFile' = o.file
    /\ UNCHANGED <<tool, pushed, writers, guard>>
    /\ UNCHANGED <<wrapVars, cryptoVars, syncVars, convVars, deskVars>>

\* AppService.SaveAgentMCPConfig for the tool, or for an agent nobody defined
SaveConfig ==
    \E agentID \in {tool, "nova"}, mcpServersConfig \in SaveInputs :
        Returns("SaveAgentMCPConfig", agentID,
                SaveAgentMCPConfigFile(cfgFile, agentID, mcpServersConfig))

\* ConfigManager.WriteAgentMCPConfig, the call running alone
WriteConfig ==
    \E agentID \in {tool, "nova"}, servers \in ServerLists :
        Returns("WriteAgentMCPConfig", agentID,
                WriteAgentMCPConfig(cfgFile, agentID, servers))

\* TOMLAdapter.SetMCPServersFromStandard on the Codex file
SetServers ==
    /\ FormatOf(tool) = "codex_toml"
    /\ \E standardServers \in FileServers :
          Returns("SetMCPServersFromStandard", tool,
                  SetMCPServersFromStandard(cfgFile, standardServers))

NextFiles == SaveConfig \/ WriteConfig \/ SetServers

SpecFiles == InitFiles /\ [][NextFiles]_vars

\* the top-level keys of a file other than the tool's server-map key
OtherKeys(f) == Without(f.doc, GetConfigKey(tool))

WritePaths == {"SaveAgentMCPConfig", "WriteAgentMCPConfig", "SetMCPServersFromStandard"}

\* C21: a call of a write path for the tool that returns no error leaves
\* every top-level key of the file other than the server-map key with the
\* value it had, whatever the file held before.
C21_OtherKeysKept ==
    [][(cfgCall'.op \in WritePaths /\ ~cfgCall'.err)
          => OtherKeys(cfgFile') = OtherKeys(cfgFile)]_vars

\* the same for SaveAgentMCPConfig alone
C21_SaveKeepsOtherKeys ==
    [][(cfgCall'.op = "SaveAgentMCPConfig")
          => OtherKeys(cfgFile') = OtherKeys(cfgFile)]_vars

\* the same for WriteAgentMCPConfig on a file that is plain JSON
C21_WriteKeepsOtherKeysOfJSON ==
    [][(cfgCall'.op = "WriteAgentMCPConfig" /\ cfgFile.form = "json")
          => OtherKeys(cfgFile') = OtherKeys(cfgFile)]_vars

-----------------------------------------------------------------------------
(* A push and a pull, as one tool's file meets them: the push reads the     *)
(* tool's entry with GetAgentMCPConfig and puts it in the Gist's aggregate, *)
(* the pull hands the entry it finds there to SaveAgentMCPConfig.  What the *)
(* Gist and the records do in between is SpecDesk's.                        *)

InitRound == InitFiles

\* PushAllAgentsToGist, for the tool: a tool whose file cannot be read is
\* left out of the aggregate
PushTool ==
    /\ cfgCall' = Call("PushAllAgentsToGist",
                       GetAgentMCPConfigFile(cfgFile, tool).err, tool)
    /\ pushed' = IF GetAgentMCPConfigFile(cfgFile, tool).err THEN pushed
                 ELSE [set |-> TRUE, entry |-> GetAgentMCPConfigFile(cfgFile, tool).entry]
    /\ UNCHANGED <<tool, cfgFile, writers, guard>>
    /\ UNCHANGED <<wrapVars, cryptoVars, syncVars, convVars, deskVars>>

\* PullFromGist, for the tool: the entry of the aggregate is applied
PullTool ==
    /\ pushed.set
    /\ cfgCall' = Call("PullFromGist",
                       SaveAgentMCPConfigFile(cfgFile, tool, pushed.entry).err, tool)
    /\ cfgFile' = SaveAgentMCPConfigFile(cfgFile, tool, pushed.entry).file
    /\ UNCHANGED <<tool, pushed, writers, guard>>
    /\ UNCHANGED <<wrapVars, cryptoVars, syncVars, convVars, deskVars>>

\* the tool, or its user, rewrites the file
ToolEdits ==
    /\ cfgFile' \in FilesOf(tool) \ {cfgFile}
    /\ cfgCall' = Call("edit", FALSE, tool)
    /\ UNCHANGED <<tool, pushed, writers, guard>>
    /\ UNCHANGED <<wrapVars, cryptoVars, syncVars, convVars, deskVars>>

NextRound == PushTool \/ PullTool \/ ToolEdits

SpecRound == InitRound /\ [][NextRound]_vars

\* the map of servers in the tool's file; a file without the key has none
ServersIn(f) ==
    IF GetConfigKey(tool) \in DOMAIN f.doc THEN f.doc[GetConfigKey(tool)]
    ELSE TopMap(NoServers)

\* a pull that applied the tool's entry right after the push that took it
PulledRightAfterPush ==
    /\ cfgCall.op = "PushAllAgentsToGist" /\ ~cfgCall.err
    /\ cfgCall'.op = "PullFromGist" /\ ~cfgCall'.err

\* C25: a push followed at once by a pull leaves the server map in the
\* pushed tool's file as it was, for a Zed-format tool too, whatever its
\* entries hold.
C25_RoundTrip ==
    [][PulledRightAfterPush => ServersIn(cfgFile') = ServersIn(cfgFile)]_vars

\* the same for the tools of the standard format
C25_StandardRoundTrip ==
    [][(PulledRightAfterPush /\ FormatOf(tool) = "standard")
          => ServersIn(cfgFile') = ServersIn(cfgFile)]_vars

-----------------------------------------------------------------------------
(* Two calls of WriteAgentMCPConfig for the same tool, each adding a server *)
(* of its own.  A call reads the file, then writes it; nothing in the call  *)
(* holds the file in between.  With guard the caller starts a call only     *)
(* when no other is in flight.                                              *)

Writers == {1, 2}

ServerOf(w) ==
    MCPServer(IF w = 1 THEN "s1" ELSE "s2", StrNpx, <<>>, TRUE)

InFlight(w) == writers[w].pc \in {"called", "read"}

InitWriters ==
    /\ DeskIdle
    /\ ConvIdle
    /\ WrapIdle
    /\ CryptoIdle
    /\ SyncIdle
    /\ goos \in {"linux", "windows"}
    /\ tool \in DOMAIN AgentKeys
    /\ cfgFile \in FilesOf(tool)
    /\ cfgCall = NoCall
    /\ pushed = NoEntry
    /\ guard \in BOOLEAN
    /\ writers = [w \in Writers |->
                    [pc |-> "idle", config |-> NoDoc, server |-> ServerOf(w), nth |-> 0]]

\* ApplyConfigToAgents is called for the tool
CallWrite ==
    \E w \in Writers :
        /\ writers[w].pc = "idle"
        /\ guard => \A v \in Writers : ~InFlight(v)
        /\ writers' = [writers EXCEPT ![w].pc = "called"]
        /\ UNCHANGED <<tool, cfgFile, cfgCall, pushed, guard>>
        /\ UNCHANGED <<wrapVars, cryptoVars, syncVars, convVars, deskVars>>

\* the call reads the file
ReadStep ==
    \E w \in Writers :
        /\ writers[w].pc = "called"
        /\ writers' = [writers EXCEPT ![w].pc = "read",
                                      ![w].config = ReadExisting(cfgFile)]
        /\ UNCHANGED <<tool, cfgFile, cfgCall, pushed, guard>>
        /\ UNCHANGED <<wrapVars, cryptoVars, syncVars, convVars, deskVars>>

\* the call merges its server into what it read and writes the file
WriteStep ==
    \E w \in Writers :
        /\ writers[w].pc = "read"
        /\ cfgFile' = ToolFile("json",
                               MergeServers(writers[w].config, tool, <<writers[w].server>>))
        /\ writers' = [writers EXCEPT
                         ![w].pc = "done",
                         ![w].nth = 1 + Cardinality({ v \in Writers : writers[v].pc = "done" })]
        /\ cfgCall' = Call("WriteAgentMCPConfig", FALSE, tool)
        /\ UNCHANGED <<tool, pushed, guard>>
        /\ UNCHANGED <<wrapVars, cryptoVars, syncVars, convVars, deskVars>>

NextWriters == CallWrite \/ ReadStep \/ WriteStep

SpecWriters == InitWriters /\ [][NextWriters]_vars

\* the document has a server of this name in the map under the tool's key
HasServerIn(doc, name) ==
    /\ GetConfigKey(tool) \in DOMAIN doc
    /\ doc[GetConfigKey(tool)].isMap
    /\ name \in DOMAIN doc[GetConfigKey(tool)].servers

HasServer(f, name) == HasServerIn(f.doc, name)

BothDone == \A w \in DOMAIN writers : writers[w].pc = "done"

\* C30: nothing keeps two calls for the same tool apart.  When the caller
\* runs them one after the other, the file they leave has both their
\* servers.  Without that guard the file still has the server of the call
\* that wrote last, and it lacks the server of the call that wrote first
\* exactly when the other call had read the file before that write (the run
\* C30_LostUpdate ends).
C30_LostOnlyByOverlap ==
    (writers # NoWriters /\ BothDone) =>
        /\ guard => \A w \in Writers : HasServer(cfgFile, writers[w].server.Name)
        /\ \A w \in Writers, v \in Writers :
              (writers[w].nth = 1 /\ writers[v].nth = 2) =>
                  /\ HasServer(cfgFile, writers[v].server.Name)
                  /\ ~HasServer(cfgFile, writers[w].server.Name)
                        <=> ~HasServerIn(writers[v].config, writers[w].server.Name)

\* both calls returned, no guard, and the file lacks the server of the call
\* that wrote first
C30_LostUpdate ==
    /\ writers # NoWriters /\ BothDone /\ ~guard
    /\ \E w \in Writers :
          /\ writers[w].nth = 1
          /\ ~HasServer(cfgFile, writers[w].server.Name)

=============================================================================
